---- MODULE Spec2Model ----
(***************************************************************************)
(* Model of the wash shell's execution engine (src/src/shell_base.rs),     *)
(* native backend (cfg(not(target_os = "wasi"))): the redirect resolver    *)
(* preprocess_redirects, the dispatcher Shell::execute_command and the     *)
(* process spawner spawn.                                                  *)
(*                                                                         *)
(* Specifications:                                                         *)
(*   SpecResolve  one call of preprocess_redirects, for every redirect     *)
(*                list up to MaxRedirs entries over RedirectInputs;        *)
(*   Spec         the shell running a sequence of commands, each through   *)
(*                execute_command (resolver, dispatch, spawn, wait);       *)
(*   SpecLookup   the lookup of a command name, for every PATH of up to    *)
(*                MaxPathDirs entries, working directory and set of files; *)
(*   SpecInput    the line loop of run_interpreter: history_expansion and  *)
(*                handle_input on histories of up to MaxHistory entries;   *)
(*   SpecEdit     one call of get_line, byte by byte, on lines of up to    *)
(*                MaxLine typed characters of ASCII text;                  *)
(*   SpecBytes    the same call on a terminal that also sends a byte from  *)
(*                0x80 on.                                                 *)
(***************************************************************************)
EXTENDS Integers, Sequences, FiniteSets, TLC

VARIABLES
    pc,               \* position of the shell in execute_command / the loop
    redirects,        \* the command's redirect list (&mut Vec<Redirect>)
    idx,              \* entries of the list the second loop has processed
    fd_redirects,     \* HashMap<RawFd, OpenedFd> built by preprocess_redirects
    status,           \* io::Result<()> returned by preprocess_redirects
    procFds,          \* the shell process's descriptor table: fd -> open file
    fs,               \* filesystem: path -> "absent" | "empty" | "data" | "dir"
    history_file,     \* Shell.history_file: the set of fds it holds (Option)
    fd_mappings,      \* the Duplicate list handed to spawn: child fd -> parent fd
    command,          \* execute_command's command argument
    background,       \* execute_command's background argument
    result,           \* the value of `result` in execute_command
    ret,              \* the value execute_command returned
    ran,              \* what the command ran: "none" | "builtin" | "spawn"
    child,            \* the process spawn started
    spawn_ret,        \* the value spawn returned
    last_exit_status, \* Shell.last_exit_status
    exe_files,        \* the program files that exist (paths in normal form)
    env_path,         \* the entries of PATH split at ':' ("" is one empty entry)
    pwd,              \* Shell.pwd
    spawn_args,       \* path and arguments handed to spawn
    history,          \* Shell.history: Vec<String>, a line is its characters
    history_written,  \* the lines written to the history file, in order
    input,            \* run_interpreter's input: String
    expansion,        \* the value history_expansion returned
    parser,           \* handle_input's parser: what it yields, how much it has
    exit_status,      \* handle_input's exit_status
    cursor_position,  \* Shell.cursor_position
    insert_mode,      \* Shell.insert_mode
    escaped,          \* get_line's escaped
    history_entry_to_display,  \* get_line's index into the history, -1 if none
    input_stash,      \* get_line's input_stash
    keys              \* the bytes c1, c2, ... the loop iteration has read

vars == <<pc, redirects, idx, fd_redirects, status, procFds, fs, history_file,
          fd_mappings, command, background, result, ret, ran, child, spawn_ret,
          last_exit_status, exe_files, env_path, pwd, spawn_args, history,
          history_written, input, expansion, parser, exit_status,
          cursor_position, insert_mode, escaped, history_entry_to_display,
          input_stash, keys>>

\* The state of the command lookup.
lookup_vars == <<exe_files, env_path, pwd, spawn_args>>

\* The state of the line editor.
edit_vars == <<cursor_position, insert_mode, escaped, history_entry_to_display,
               input_stash, keys>>

\* The state of the line loop.
line_vars == <<history, history_written, input, expansion, parser, exit_status>>

(***************************************************************************)
(* Bounds and program constants                                            *)
(***************************************************************************)
MaxRedirs == 2

EXIT_SUCCESS == 0
EXIT_FAILURE == 1
EXIT_CRITICAL_FAILURE == 2
EXIT_CMD_NOT_FOUND == 127

STDIN == 0
STDOUT == 1
STDERR == 2

StdFds == {STDIN, STDOUT, STDERR}
Paths == {"f", "n", "d"}
FileKinds == {"Read", "Write", "Append", "ReadWrite"}
WriteKinds == {"Write", "Append", "ReadWrite"}
PipeKinds == {"PipeIn", "PipeOut"}

(***************************************************************************)
(* Redirect (enum Redirect, native variant).  For Duplicate, fd is fd_dest *)
(* and src is fd_source; for a pipe, fd is the shell's descriptor of the   *)
(* endpoint the variant carries.                                           *)
(***************************************************************************)
Redirect(kind, fd, path, src) == [kind |-> kind, fd |-> fd, path |-> path, src |-> src]

Read(fd, path) == Redirect("Read", fd, path, 0)
Write(fd, path) == Redirect("Write", fd, path, 0)
AppendTo(fd, path) == Redirect("Append", fd, path, 0)
ReadWrite(fd, path) == Redirect("ReadWrite", fd, path, 0)
PipeIn == Redirect("PipeIn", 0, "", 0)
PipeOut == Redirect("PipeOut", 0, "", 0)
Duplicate(fd_dest, fd_source) == Redirect("Duplicate", fd_dest, "", fd_source)
Close(fd) == Redirect("Close", fd, "", 0)

(***************************************************************************)
(* Open file descriptions and OpenedFd (enum OpenedFd).  Two descriptors   *)
(* refer to the same open file or pipe exactly when their ofd is equal:    *)
(* open() makes a new one, try_clone() (dup) shares it.                    *)
(***************************************************************************)
Ofd(kind, id) == [kind |-> kind, id |-> id]

OpenedFd(tag, fd, ofd, path, writable) ==
    [tag |-> tag, fd |-> fd, ofd |-> ofd, path |-> path, writable |-> writable]

StdTag(fd) == IF fd = STDIN THEN "StdIn" ELSE IF fd = STDOUT THEN "StdOut" ELSE "StdErr"

StdOpenedFd(fd) == OpenedFd(StdTag(fd), fd, Ofd("tty", fd), "", FALSE)

\* File and pipe variants own a descriptor of the shell; dropping them closes it.
Owned(entry) == entry.tag \in {"File", "PipeReader", "PipeWriter"}

\* open()/dup()/pipe() return the lowest descriptor number that is free.
LowestFree(pf) ==
    CHOOSE n \in 0..Cardinality(DOMAIN pf) :
        /\ n \notin DOMAIN pf
        /\ \A m \in 0..(n - 1) : m \in DOMAIN pf

OpenFd(pf, fd, ofd) == [x \in DOMAIN pf \cup {fd} |-> IF x = fd THEN ofd ELSE pf[x]]

CloseFd(pf, fd) == [x \in DOMAIN pf \ {fd} |-> pf[x]]

\* Drop of one OpenedFd value.
DropEntry(pf, entry) == IF Owned(entry) THEN CloseFd(pf, entry.fd) ELSE pf

\* HashMap::insert: the later value replaces the entry of the key.
InsertFd_keep(tbl, fd, entry) ==
    IF fd \in DOMAIN tbl THEN tbl
    ELSE [x \in DOMAIN tbl \cup {fd} |-> IF x = fd THEN entry ELSE tbl[x]]

InsertFd(tbl, fd, entry) ==
    [x \in DOMAIN tbl \cup {fd} |-> IF x = fd THEN entry ELSE tbl[x]]

\* HashMap::remove.
RemoveFd(tbl, fd) == [x \in DOMAIN tbl \ {fd} |-> tbl[x]]

\* The value a HashMap::insert or remove displaces is dropped.
DropReplaced(pf, tbl, fd) == IF fd \in DOMAIN tbl THEN DropEntry(pf, tbl[fd]) ELSE pf

\* The table preprocess_redirects starts from.
InitialFdRedirects == [fd \in StdFds |-> StdOpenedFd(fd)]

(***************************************************************************)
(* First loop of preprocess_redirects: pipeline redirections are applied   *)
(* to slots 0 and 1 before the rest of the list is looked at.              *)
(***************************************************************************)
PipeEntry(r) ==
    IF r.kind = "PipeIn"
    THEN OpenedFd("PipeReader", r.fd, Ofd("pipe_r", 0), "", FALSE)
    ELSE OpenedFd("PipeWriter", r.fd, Ofd("pipe_w", 0), "", TRUE)

PipeSlot(r) == IF r.kind = "PipeIn" THEN STDIN ELSE STDOUT

RECURSIVE ApplyPipesFrom(_, _, _)
ApplyPipesFrom(rs, i, st) ==
    IF i > Len(rs) THEN st
    ELSE IF rs[i].kind \in PipeKinds
         THEN ApplyPipesFrom(rs, i + 1,
                  [tbl |-> InsertFd(st.tbl, PipeSlot(rs[i]), PipeEntry(rs[i])),
                   pf  |-> DropReplaced(st.pf, st.tbl, PipeSlot(rs[i]))])
         ELSE ApplyPipesFrom(rs, i + 1, st)

ApplyPipes_skipped(rs, tbl, pf) == [tbl |-> tbl, pf |-> pf]

ApplyPipes(rs, tbl, pf) == ApplyPipesFrom(rs, 1, [tbl |-> tbl, pf |-> pf])

(***************************************************************************)
(* OpenOptions::open for the four file variants.                           *)
(***************************************************************************)
OpenErr_nodircheck(kind, st) ==
    IF kind = "Read" /\ st = "absent" THEN "ENOENT" ELSE "Ok"

\* Read needs the path to exist; a write mode cannot open a directory.
OpenErr(kind, st) ==
    IF kind = "Read"
    THEN IF st = "absent" THEN "ENOENT" ELSE "Ok"
    ELSE IF st = "dir" THEN "EISDIR" ELSE "Ok"

\* create(true) makes a missing file; truncate(true) empties an existing one.
FsAfterOpen(kind, st) ==
    IF kind = "Read" \/ st = "dir" THEN st
    ELSE IF st = "absent" THEN "empty"
    ELSE IF kind = "Write" THEN "empty"
    ELSE st

(***************************************************************************)
(* One iteration of the second loop of preprocess_redirects on entry r,    *)
(* the i-th of the list.  cloneOk: whether try_clone (dup) succeeds.       *)
(* Returns the table, the shell's descriptors, the filesystem and the      *)
(* error the iteration returns with ("Ok": the loop goes on).              *)
(***************************************************************************)
StepResult(tbl, pf, fsys, err) == [tbl |-> tbl, pf |-> pf, fs |-> fsys, err |-> err]

OpenRedirect(r, i, tbl, pf, fsys) ==
    LET st  == fsys[r.path]
        err == OpenErr(r.kind, st)
        nfd == LowestFree(pf)
        ofd == Ofd("open", i)
        entry == OpenedFd("File", nfd, ofd, r.path, r.kind # "Read")
    IN  IF err # "Ok" THEN StepResult(tbl, pf, fsys, err)
        ELSE StepResult(InsertFd(tbl, r.fd, entry),
                        DropReplaced(OpenFd(pf, nfd, ofd), tbl, r.fd),
                        [fsys EXCEPT ![r.path] = FsAfterOpen(r.kind, st)],
                        "Ok")

DuplicateSource_raw(tbl, fd_source) ==
    IF fd_source \in StdFds THEN StdOpenedFd(fd_source) ELSE tbl[fd_source]

\* fd_redirects.get(&fd_source): what the source refers to in the table.
DuplicateSource(tbl, fd_source) == tbl[fd_source]

DuplicateRedirect(r, tbl, pf, fsys, cloneOk) ==
    IF r.src \notin DOMAIN tbl THEN StepResult(tbl, pf, fsys, "EBADF")
    ELSE LET dest == DuplicateSource(tbl, r.src)
             nfd  == LowestFree(pf)
         IN  IF Owned(dest)
             THEN IF ~cloneOk THEN StepResult(tbl, pf, fsys, "EMFILE")
                  ELSE StepResult(InsertFd(tbl, r.fd, [dest EXCEPT !.fd = nfd]),
                                  DropReplaced(OpenFd(pf, nfd, dest.ofd), tbl, r.fd),
                                  fsys, "Ok")
             ELSE StepResult(InsertFd(tbl, r.fd, dest),
                             DropReplaced(pf, tbl, r.fd), fsys, "Ok")

CloseRedirect(r, tbl, pf, fsys) ==
    StepResult(RemoveFd(tbl, r.fd), DropReplaced(pf, tbl, r.fd), fsys, "Ok")

ProcessRedirect(r, i, tbl, pf, fsys, cloneOk) ==
    IF r.kind \in FileKinds THEN OpenRedirect(r, i, tbl, pf, fsys)
    ELSE IF r.kind = "Duplicate" THEN DuplicateRedirect(r, tbl, pf, fsys, cloneOk)
    ELSE IF r.kind = "Close" THEN CloseRedirect(r, tbl, pf, fsys)
    ELSE StepResult(tbl, pf, fsys, "Ok")

(***************************************************************************)
(* Inputs                                                                  *)
(***************************************************************************)
\* The shell's own descriptors: the terminal, and the history file if open.
ShellFds(hf) ==
    [fd \in StdFds \cup hf |-> IF fd \in StdFds THEN Ofd("tty", fd) ELSE Ofd("hist", 0)]

\* The descriptor run_interpreter's open of the history file returns: the
\* first one free after the standard three.
HistoryFd == LowestFree(ShellFds({}))

\* Descriptors a redirect names: the standard ones and one more.
Fds == StdFds \cup {HistoryFd}
ReadFds == {STDIN, HistoryFd}
WriteFds == {STDOUT, STDERR, HistoryFd}

RedirectInputs ==
    {Redirect("Read", fd, p, 0) : fd \in ReadFds, p \in Paths}
        \cup {Redirect(k, fd, p, 0) : k \in WriteKinds, fd \in WriteFds, p \in Paths}
        \cup {PipeIn, PipeOut}
        \cup {Duplicate(d, s) : d \in Fds, s \in Fds}
        \cup {Close(fd) : fd \in Fds}

\* A command of a pipeline carries at most one PipeIn and one PipeOut.
WellFormed(rs) ==
    \A i, j \in 1..Len(rs) : (i # j /\ rs[i].kind \in PipeKinds) => rs[i] # rs[j]

RedirectLists(S) ==
    {rs \in UNION {[1..n -> S] : n \in 0..MaxRedirs} : WellFormed(rs)}

\* The caller made the pipes: each endpoint in the list is a descriptor of
\* the shell, numbered as pipe() numbers them.
RECURSIVE AttachPipesFrom(_, _, _)
AttachPipesFrom(rs, i, pf) ==
    IF i > Len(rs) THEN [rs |-> rs, pf |-> pf]
    ELSE IF rs[i].kind \in PipeKinds
         THEN LET nfd == LowestFree(pf)
              IN  AttachPipesFrom([rs EXCEPT ![i].fd = nfd], i + 1,
                                  OpenFd(pf, nfd, PipeEntry(rs[i]).ofd))
         ELSE AttachPipesFrom(rs, i + 1, pf)

AttachPipes(rs, pf) == AttachPipesFrom(rs, 1, pf)

InitFs == [p \in Paths |-> IF p = "f" THEN "data" ELSE IF p = "n" THEN "absent" ELSE "dir"]

NoChild == [state |-> "none", code |-> 0]

\* No call of history_expansion has returned for the line being read.
NoExpansion == [kind |-> "None", text |-> <<>>]

\* handle_input has not been called for the line being read.
NoParser == [yields |-> <<>>, pos |-> 0]

(***************************************************************************)
(* preprocess_redirects as steps                                           *)
(***************************************************************************)
\* lines 215-230
PipePass ==
    /\ pc = "pipes"
    /\ LET st == ApplyPipes(redirects, fd_redirects, procFds)
       IN  /\ fd_redirects' = st.tbl
           /\ procFds' = st.pf
    /\ pc' = "resolve"
    /\ UNCHANGED <<edit_vars, redirects, idx, status, fs, history_file, fd_mappings, command,
                   background, result, ret, ran, child, spawn_ret, last_exit_status, lookup_vars, line_vars>>

\* lines 232-351: one iteration, or the final return
ResolveStep ==
    /\ pc = "resolve"
    /\ IF idx = Len(redirects)
       THEN /\ pc' = "resolved"
            /\ UNCHANGED <<idx, fd_redirects, procFds, fs, status>>
       ELSE \E cloneOk \in BOOLEAN :
              LET st == ProcessRedirect(redirects[idx + 1], idx + 1, fd_redirects,
                                        procFds, fs, cloneOk)
              IN  /\ fd_redirects' = st.tbl
                  /\ procFds' = st.pf
                  /\ fs' = st.fs
                  /\ status' = st.err
                  /\ idx' = IF st.err = "Ok" THEN idx + 1 ELSE idx
                  /\ pc' = IF st.err = "Ok" THEN "resolve" ELSE "resolved"
    /\ UNCHANGED <<edit_vars, redirects, history_file, fd_mappings, command, background,
                   result, ret, ran, child, spawn_ret, last_exit_status, lookup_vars, line_vars>>

(***************************************************************************)
(* Shell::execute_command                                                  *)
(***************************************************************************)
ExitCodes == {0, 2, 3}

\* Redirect lists the commands of the loop are run with.
CommandRedirectInputs ==
    {Read(STDIN, "f"), Read(STDIN, "n"),
     Write(STDOUT, "f"), Write(STDOUT, "n"), Write(STDOUT, "d"),
     AppendTo(STDERR, "n"), ReadWrite(HistoryFd, "f"),
     PipeIn, PipeOut,
     Duplicate(STDERR, STDOUT), Duplicate(STDOUT, HistoryFd),
     Close(STDOUT), Close(STDERR)}

\* A command name or a path is the sequence of its components and
\* separators: "./q" is <<".", "/", "q">>, "/a/p" is <<"/", "a", "/", "p">>.
Sep == "/"
CurDir == "."

\* str::starts_with(char) on a command name.
StartsWith(name, c) == Len(name) > 0 /\ name[1] = c

\* PathBuf::join: an absolute path replaces the base, anything else is put
\* after the base and a separator (none after an empty base or a base that
\* ends in one).
Join(base, path) ==
    IF StartsWith(path, Sep) THEN path
    ELSE IF base = <<>> \/ base[Len(base)] = Sep THEN base \o path
    ELSE base \o <<Sep>> \o path

\* The path the system resolves: "." components name the directory itself.
RECURSIVE Normalize(_)
Normalize(path) ==
    IF Len(path) >= 2 /\ path[1] = CurDir /\ path[2] = Sep
    THEN Normalize(SubSeq(path, 3, Len(path)))
    ELSE IF path = <<>> THEN <<>>
    ELSE <<path[1]>> \o Normalize(Tail(path))

\* path_exists, lines 195-203: metadata() of the path; a relative path is
\* looked up from the working directory of the process.
path_exists(path, files, cwd) == Normalize(Join(cwd, path)) \in files

\* The directories and program files of the system.
DirA == <<Sep, "a">>
DirB == <<Sep, "b">>
DirH == <<Sep, "h">>
Umount == <<Sep, "usr", Sep, "bin", Sep, "umount">>
Interpreter == <<Sep, "a", Sep, "sh">>
ProgramFiles ==
    {Join(DirA, <<"p">>), Join(DirB, <<"p">>), Join(DirB, <<"q">>),
     Join(DirH, <<"p">>), Join(DirA, <<"pwd">>)}
InitExeFiles == ProgramFiles \cup {Umount, Interpreter}

\* Inputs of the lookup: names of every form, PATH lists of up to
\* MaxPathDirs entries (an empty entry among them), sets of existing files.
MaxPathDirs == 2
LookupCommandInputs ==
    {<<"p">>, <<"q">>, <<CurDir, Sep, "p">>, <<CurDir, Sep, "q">>,
     Join(DirA, <<"p">>), Join(DirH, <<"q">>), <<"pwd">>}
PathEntries == {DirA, DirB, <<>>}
PathInputs ==
    UNION {[1..n -> PathEntries] : n \in 1..MaxPathDirs}
LookupFiles ==
    {Join(DirA, <<"p">>), Join(DirB, <<"p">>), Join(DirB, <<"q">>),
     Join(DirH, <<"p">>), Join(DirH, <<"q">>)}

\* Files whose first line is text (scripts); the others are binaries.
ScriptFiles == {Join(DirB, <<"p">>), Join(DirB, <<"q">>), Join(DirH, <<"p">>)}

\* Builtins of the match in execute_command, run with no arguments.
Builtins == {"clear", "pwd", "unset", "exit", "purge"}

\* lines 972-1343: the match arms compare the whole name with a builtin's.
IsBuiltin(cmd) == Len(cmd) = 1 /\ cmd[1] \in Builtins

\* Names the commands of the loop are run with: the builtins, a name found
\* on PATH, a name found nowhere.
BuiltinNames == {<<b>> : b \in Builtins}
CommandInputs == BuiltinNames \cup {<<"p">>, <<"x">>}

\* The builtin arms: clear and pwd succeed, unset without arguments fails.
BuiltinStatus(cmd) == IF cmd = <<"unset">> THEN EXIT_FAILURE ELSE EXIT_SUCCESS

\* The loop with the directories taken last to first.
FindInPath_last(cmd, dirs, i, files, cwd) ==
    LET hits == {j \in i..Len(dirs) : path_exists(Join(dirs[j], cmd), files, cwd)}
    IN  IF hits = {} THEN [ok |-> FALSE, path |-> <<>>]
        ELSE [ok |-> TRUE,
              path |-> Join(dirs[CHOOSE j \in hits : \A k \in hits : k <= j], cmd)]

\* lines 1367-1378: the loop over the PATH directories from entry i on; the
\* first directory where the joined path exists ends it.
RECURSIVE FindInPath(_, _, _, _, _)
FindInPath(cmd, dirs, i, files, cwd) ==
    IF i > Len(dirs) THEN [ok |-> FALSE, path |-> <<>>]
    ELSE IF path_exists(Join(dirs[i], cmd), files, cwd)
         THEN [ok |-> TRUE, path |-> Join(dirs[i], cmd)]
         ELSE FindInPath(cmd, dirs, i + 1, files, cwd)

\* lines 1345-1384: the value of full_path.
FullPath_pathFallback(cmd, dirs, files, cwd) ==
    IF StartsWith(cmd, Sep) /\ path_exists(cmd, files, cwd)
    THEN [ok |-> TRUE, path |-> cmd]
    ELSE IF StartsWith(cmd, CurDir) /\ path_exists(Join(cwd, cmd), files, cwd)
    THEN [ok |-> TRUE, path |-> Join(cwd, cmd)]
    ELSE FindInPath(<<cmd[Len(cmd)]>>, dirs, 1, files, cwd)

FullPath(cmd, dirs, files, cwd) ==
    IF StartsWith(cmd, Sep)
    THEN [ok |-> path_exists(cmd, files, cwd), path |-> cmd]
    ELSE IF StartsWith(cmd, CurDir)
    THEN [ok |-> path_exists(Join(cwd, cmd), files, cwd), path |-> Join(cwd, cmd)]
    ELSE FindInPath(cmd, dirs, 1, files, cwd)

\* lines 1388-1408: a file that starts with a line of text is run by the
\* interpreter its "#!" line or $SHELL names, with the file as argument; any
\* other file is run itself.
SpawnArgs(path, cwd) ==
    IF Normalize(Join(cwd, path)) \in ScriptFiles THEN <<Interpreter, path>>
    ELSE <<path>>

\* lines 1430-1435: the status execute_command stores and returns.
ExitStatusOf_flag(res) == IF res = EXIT_SUCCESS THEN EXIT_SUCCESS ELSE EXIT_FAILURE

ExitStatusOf(res) == res

\* Drop of the opened_fds map: every File and pipe in it is closed.
DropOpenedFds_leak(pf, tbl) == pf

DropOpenedFds(pf, tbl) ==
    [x \in DOMAIN pf \ {tbl[k].fd : k \in {k \in DOMAIN tbl : Owned(tbl[k])}} |-> pf[x]]

\* OutputDevice::new(&opened_fds) and OutputDevice::flush (crate::output_device):
\* the output boundary takes note of the redirected streams and writes out
\* what was buffered; both return Ok.
OutputDeviceOk == TRUE

\* lines 940-944: an error of the resolver ends the command.
ResolveFailed_ignored(st) == FALSE

ResolveFailed(st) == st # "Ok"

\* lines 946-967: the table as the Duplicate list spawn takes.
FdMappings_same(tbl) == [fd \in DOMAIN tbl |-> fd]

FdMappings(tbl) ==
    [fd \in DOMAIN tbl |-> IF Owned(tbl[fd]) THEN tbl[fd].fd
                           ELSE IF tbl[fd].tag = "StdIn" THEN STDIN
                           ELSE IF tbl[fd].tag = "StdOut" THEN STDOUT
                           ELSE STDERR]

\* spawn, lines 146-164 and 173-179: the standard descriptors that are the
\* child_fd of no mapping are closed in the child before exec.
FdsToClose(mappings) == StdFds \ DOMAIN mappings

\* spawn, lines 154-166 and 182: the child's descriptors: child_fd refers to
\* the open file parent_fd refers to in the shell; the shell's other
\* descriptors are close-on-exec.
ChildFds(mappings, pf) ==
    [fd \in DOMAIN mappings |->
        IF mappings[fd] \in DOMAIN pf THEN pf[mappings[fd]] ELSE Ofd("closed", 0)]

\* lines 185-190: spawn waits for the child unless background is set.
SpawnWaits_never(bg) == FALSE

SpawnWaits(bg) == ~bg

\* run_interpreter, lines 800-810: the history file is opened, or is not.
RunInterpreter ==
    /\ pc = "new"
    /\ \E opened \in BOOLEAN :
         /\ history_file' = IF opened THEN {LowestFree(procFds)} ELSE {}
         /\ procFds' = ShellFds(history_file')
    /\ pc' = "idle"
    /\ UNCHANGED <<edit_vars, redirects, idx, fd_redirects, status, fs, fd_mappings, command,
                   background, result, ret, ran, child, spawn_ret, last_exit_status, lookup_vars, line_vars>>

\* The interpreter calls execute_command with the redirects of a command;
\* preprocess_redirects starts from the table of the standard streams.
Call ==
    /\ pc = "idle"
    /\ \E rs \in RedirectLists(CommandRedirectInputs) :
         LET st == AttachPipes(rs, procFds)
         IN  /\ redirects' = st.rs
             /\ procFds' = st.pf
    /\ idx' = 0
    /\ fd_redirects' = InitialFdRedirects
    /\ status' = "Ok"
    /\ pc' = "pipes"
    /\ UNCHANGED <<edit_vars, fs, history_file, fd_mappings, command, background, result, ret,
                   ran, child, spawn_ret, last_exit_status, lookup_vars, line_vars>>

\* lines 930-944: the early return on a resolver error; opened_fds is dropped.
ResolveError ==
    /\ pc = "resolved"
    /\ OutputDeviceOk
    /\ ResolveFailed(status)
    /\ ret' = EXIT_FAILURE
    /\ procFds' = DropOpenedFds(procFds, fd_redirects)
    /\ fd_redirects' = <<>>
    /\ pc' = "returned"
    /\ UNCHANGED <<edit_vars, redirects, idx, status, fs, history_file, fd_mappings, command,
                   background, result, ran, child, spawn_ret, last_exit_status, lookup_vars, line_vars>>

\* lines 946-970: the table becomes the Duplicate list handed to spawn.
MapRedirects ==
    /\ pc = "resolved"
    /\ OutputDeviceOk
    /\ ~ResolveFailed(status)
    /\ fd_mappings' = FdMappings(fd_redirects)
    /\ redirects' = <<>>
    /\ idx' = 0
    /\ pc' = "dispatch"
    /\ UNCHANGED <<edit_vars, fd_redirects, status, procFds, fs, history_file, command,
                   background, result, ret, ran, child, spawn_ret, last_exit_status, lookup_vars, line_vars>>

\* lines 972-1343: a builtin arm runs inside the shell.  The match is the
\* first use of command and background, so they are drawn here.
Builtin ==
    /\ pc = "dispatch"
    /\ \E cmd \in CommandInputs, bg \in BOOLEAN :
         /\ IsBuiltin(cmd)
         /\ cmd \notin {<<"exit">>, <<"purge">>}
         /\ command' = cmd
         /\ background' = bg
         /\ result' = BuiltinStatus(cmd)
    /\ ran' = "builtin"
    /\ pc' = "finish"
    /\ UNCHANGED <<edit_vars, redirects, idx, fd_redirects, status, procFds, fs, history_file,
                   fd_mappings, ret, child, spawn_ret, last_exit_status,
                   lookup_vars, line_vars>>

\* lines 978-987: exit ends the shell process.
ExitBuiltin ==
    /\ pc = "dispatch"
    /\ IsBuiltin(<<"exit">>)
    /\ command' = <<"exit">>
    /\ ran' = "builtin"
    /\ pc' = "exited"
    /\ UNCHANGED <<edit_vars, redirects, idx, fd_redirects, status, procFds, fs, history_file,
                   fd_mappings, background, result, ret, child, spawn_ret,
                   last_exit_status, lookup_vars, line_vars>>

\* lines 1279-1281: purge first has /usr/bin/umount -a spawned.
PurgeUmount ==
    /\ pc = "dispatch"
    /\ IsBuiltin(<<"purge">>)
    /\ command' = <<"purge">>
    /\ \E bg \in BOOLEAN : background' = bg
    /\ spawn_args' = <<Umount, <<"-a">>>>
    /\ pc' = "spawn"
    /\ UNCHANGED <<edit_vars, redirects, idx, fd_redirects, status, procFds, fs, history_file,
                   fd_mappings, result, ret, ran, child, spawn_ret,
                   last_exit_status, exe_files, env_path, pwd,
                   line_vars>>

\* lines 1282-1317: purge closes the history file and removes every file
\* and directory under "/".
Purge ==
    /\ pc = "purge"
    /\ history_file' = {}
    /\ procFds' = [x \in DOMAIN procFds \ history_file |-> procFds[x]]
    /\ fs' = [p \in DOMAIN fs |-> "absent"]
    /\ exe_files' = {}
    /\ result' = EXIT_SUCCESS
    /\ pc' = "finish"
    /\ UNCHANGED <<edit_vars, redirects, idx, fd_redirects, status, fd_mappings, command,
                   background, ret, ran, child, spawn_ret, last_exit_status,
                   env_path, pwd, spawn_args,
                   line_vars>>

\* lines 1344-1424, the arm of every other name: the name is looked up; a
\* file that is found is handed to spawn, a name that is not found ends the
\* command.
ExternalOf(names) ==
    /\ pc = "dispatch"
    /\ \E cmd \in names, bg \in BOOLEAN :
         /\ ~IsBuiltin(cmd)
         /\ command' = cmd
         /\ background' = bg
         /\ LET full_path == FullPath(cmd, env_path, exe_files, pwd)
            IN  IF full_path.ok
                THEN /\ spawn_args' = SpawnArgs(full_path.path, pwd)
                     /\ pc' = "spawn"
                     /\ UNCHANGED result
                ELSE /\ result' = EXIT_FAILURE
                     /\ pc' = "finish"
                     /\ UNCHANGED spawn_args
    /\ UNCHANGED <<edit_vars, redirects, idx, fd_redirects, status, procFds, fs, history_file,
                   fd_mappings, ret, ran, child, spawn_ret, last_exit_status,
                   exe_files, env_path, pwd,
                   line_vars>>

External == ExternalOf(CommandInputs)

\* spawn, lines 146-190: the child is started (unwrap panics if it cannot
\* be); a background spawn returns at once.
SpawnStart ==
    /\ pc = "spawn"
    /\ \E started \in BOOLEAN :
         IF ~started
         THEN /\ pc' = "panicked"
              /\ UNCHANGED <<ran, child, spawn_ret>>
         ELSE /\ ran' = "spawn"
              /\ child' = [state |-> "running", code |-> 0]
              /\ IF SpawnWaits(background)
                 THEN /\ pc' = "wait"
                      /\ UNCHANGED spawn_ret
                 ELSE /\ pc' = "spawn_ret"
                      /\ spawn_ret' = EXIT_SUCCESS
    /\ UNCHANGED <<edit_vars, redirects, idx, fd_redirects, status, procFds, fs, history_file,
                   fd_mappings, command, background, result, ret, last_exit_status,
                   lookup_vars, line_vars>>

\* The child runs on its own and ends with an exit code or by a signal.
ChildTerminates ==
    /\ child.state = "running"
    /\ \/ \E c \in ExitCodes : child' = [state |-> "exited", code |-> c]
       \/ child' = [state |-> "signaled", code |-> 0]
    /\ UNCHANGED <<edit_vars, pc, redirects, idx, fd_redirects, status, procFds, fs,
                   history_file, fd_mappings, command, background, result, ret, ran,
                   spawn_ret, last_exit_status, lookup_vars, line_vars>>

\* spawn, line 186: wait() returns when the child has ended; code() is None
\* for a signal and unwrap panics.
SpawnWait ==
    /\ pc = "wait"
    /\ child.state \in {"exited", "signaled"}
    /\ IF child.state = "exited"
       THEN /\ spawn_ret' = child.code
            /\ pc' = "spawn_ret"
       ELSE /\ pc' = "panicked"
            /\ UNCHANGED spawn_ret
    /\ UNCHANGED <<edit_vars, redirects, idx, fd_redirects, status, procFds, fs, history_file,
                   fd_mappings, command, background, result, ret, ran, child,
                   last_exit_status, lookup_vars, line_vars>>

\* lines 1403-1417: spawn's value is the result of an external command;
\* line 1281: purge drops it and goes on.
SpawnReturn ==
    /\ pc = "spawn_ret"
    /\ IF command = <<"purge">>
       THEN /\ pc' = "purge"
            /\ UNCHANGED result
       ELSE /\ result' = spawn_ret
            /\ pc' = "finish"
    /\ spawn_ret' = 0
    /\ UNCHANGED <<edit_vars, redirects, idx, fd_redirects, status, procFds, fs, history_file,
                   fd_mappings, command, background, ret, ran, child,
                   last_exit_status, lookup_vars, line_vars>>

\* lines 1428-1435: last_exit_status is set and returned; opened_fds is dropped.
Finish ==
    /\ pc = "finish"
    /\ OutputDeviceOk
    /\ last_exit_status' = ExitStatusOf(result)
    /\ ret' = last_exit_status'
    /\ procFds' = DropOpenedFds(procFds, fd_redirects)
    /\ fd_redirects' = <<>>
    /\ pc' = "returned"
    /\ UNCHANGED <<edit_vars, redirects, idx, status, fs, history_file, fd_mappings, command,
                   background, result, ran, child, spawn_ret, lookup_vars, line_vars>>

\* run_interpreter, lines 845-853: the loop goes on to the next line.  The
\* command's process is no longer looked at.
ReturnToLoop ==
    /\ pc = "returned"
    /\ pc' = "idle"
    /\ redirects' = <<>>
    /\ idx' = 0
    /\ status' = "Ok"
    /\ fd_mappings' = <<>>
    /\ command' = <<>>
    /\ background' = FALSE
    /\ result' = 0
    /\ ret' = 0
    /\ ran' = "none"
    /\ child' = NoChild
    /\ spawn_args' = <<>>
    /\ UNCHANGED <<edit_vars, fd_redirects, procFds, fs, history_file, spawn_ret,
                   last_exit_status, exe_files, env_path, pwd,
                   line_vars>>

\* Shell::new, lines 368-380.
Init ==
    /\ pc = "new"
    /\ redirects = <<>>
    /\ idx = 0
    /\ fd_redirects = <<>>
    /\ status = "Ok"
    /\ history_file = {}
    /\ procFds = ShellFds({})
    /\ fs = InitFs
    /\ fd_mappings = <<>>
    /\ command = <<>>
    /\ background = FALSE
    /\ result = 0
    /\ ret = 0
    /\ ran = "none"
    /\ child = NoChild
    /\ spawn_ret = 0
    /\ last_exit_status = EXIT_SUCCESS
    /\ exe_files = InitExeFiles
    /\ env_path = <<DirA, DirB>>
    /\ pwd = DirH
    /\ spawn_args = <<>>
    /\ history = <<>>
    /\ history_written = <<>>
    /\ input = <<>>
    /\ expansion = NoExpansion
    /\ parser = NoParser
    /\ exit_status = EXIT_SUCCESS
    /\ cursor_position = 0
    /\ insert_mode = FALSE
    /\ escaped = FALSE
    /\ history_entry_to_display = 0 - 1
    /\ input_stash = <<>>
    /\ keys = <<>>

Next ==
    \/ RunInterpreter
    \/ Call
    \/ PipePass
    \/ ResolveStep
    \/ ResolveError
    \/ MapRedirects
    \/ Builtin
    \/ ExitBuiltin
    \/ PurgeUmount
    \/ Purge
    \/ External
    \/ SpawnStart
    \/ ChildTerminates
    \/ SpawnWait
    \/ SpawnReturn
    \/ Finish
    \/ ReturnToLoop

Spec == Init /\ [][Next]_vars

\* One call of preprocess_redirects from an interactive shell.
InitResolve ==
    /\ history_file = {HistoryFd}
    /\ \E rs \in RedirectLists(RedirectInputs) :
         LET st == AttachPipes(rs, ShellFds(history_file))
         IN  /\ redirects = st.rs
             /\ procFds = st.pf
    /\ pc = "pipes"
    /\ idx = 0
    /\ fd_redirects = InitialFdRedirects
    /\ status = "Ok"
    /\ fs = InitFs
    /\ fd_mappings = <<>>
    /\ command = <<>>
    /\ background = FALSE
    /\ result = 0
    /\ ret = 0
    /\ ran = "none"
    /\ child = NoChild
    /\ spawn_ret = 0
    /\ last_exit_status = EXIT_SUCCESS
    /\ exe_files = InitExeFiles
    /\ env_path = <<DirA, DirB>>
    /\ pwd = DirH
    /\ spawn_args = <<>>
    /\ history = <<>>
    /\ history_written = <<>>
    /\ input = <<>>
    /\ expansion = NoExpansion
    /\ parser = NoParser
    /\ exit_status = EXIT_SUCCESS
    /\ cursor_position = 0
    /\ insert_mode = FALSE
    /\ escaped = FALSE
    /\ history_entry_to_display = 0 - 1
    /\ input_stash = <<>>
    /\ keys = <<>>

NextResolve == PipePass \/ ResolveStep

SpecResolve == InitResolve /\ [][NextResolve]_vars

\* The lookup of one command name, for every PATH, working directory and
\* set of existing files.
InitLookup ==
    /\ pc = "dispatch"
    /\ env_path \in PathInputs
    /\ pwd \in {DirH, DirA}
    /\ exe_files \in SUBSET LookupFiles
    /\ spawn_args = <<>>
    /\ history = <<>>
    /\ history_written = <<>>
    /\ input = <<>>
    /\ expansion = NoExpansion
    /\ parser = NoParser
    /\ exit_status = EXIT_SUCCESS
    /\ cursor_position = 0
    /\ insert_mode = FALSE
    /\ escaped = FALSE
    /\ history_entry_to_display = 0 - 1
    /\ input_stash = <<>>
    /\ keys = <<>>
    /\ redirects = <<>>
    /\ idx = 0
    /\ fd_redirects = InitialFdRedirects
    /\ status = "Ok"
    /\ history_file = {}
    /\ procFds = ShellFds({})
    /\ fs = InitFs
    /\ fd_mappings = FdMappings(InitialFdRedirects)
    /\ command = <<>>
    /\ background = FALSE
    /\ result = 0
    /\ ret = 0
    /\ ran = "none"
    /\ child = NoChild
    /\ spawn_ret = 0
    /\ last_exit_status = EXIT_SUCCESS

Lookup == ExternalOf(LookupCommandInputs)

NextLookup == Lookup

SpecLookup == InitLookup /\ [][NextLookup]_vars

(***************************************************************************)
(* Shell::history_expansion, Shell::handle_input and the line loop of      *)
(* Shell::run_interpreter                                                  *)
(***************************************************************************)
\* A line is the sequence of its characters.
MaxHistory == 3
Bang == "!"
Digits == {"0", "1", "2", "3", "4", "5", "6", "7", "8", "9"}
DigitValue(d) == CHOOSE n \in 0..9 : d = ToString(n)
WordChars == Digits \cup {"a", "b", "x", "_"}

\* str::replace: every occurrence of pat in s, left to right and not
\* overlapping, becomes rep.
RECURSIVE Replace(_, _, _)
Replace(s, pat, rep) ==
    IF Len(s) < Len(pat) THEN s
    ELSE IF SubSeq(s, 1, Len(pat)) = pat
         THEN rep \o Replace(SubSeq(s, Len(pat) + 1, Len(s)), pat, rep)
         ELSE <<s[1]>> \o Replace(Tail(s), pat, rep)

\* The last index of the run of characters of class that starts at j
\* (j - 1 if there is none).
RECURSIVE RunEnd(_, _, _)
RunEnd(s, j, class) ==
    IF j <= Len(s) /\ s[j] \in class THEN RunEnd(s, j + 1, class) ELSE j - 1

\* The end of the group of a pattern matched from j, 0 if it does not
\* match: (-?\d+) of NUMBER_RE, (\w+) of STRING_RE.
GroupEnd(re, s, j) ==
    IF re = "NUMBER_RE"
    THEN LET k == IF j <= Len(s) /\ s[j] = "-" THEN j + 1 ELSE j
             e == RunEnd(s, k, Digits)
         IN  IF e >= k THEN e ELSE 0
    ELSE LET e == RunEnd(s, j, WordChars)
         IN  IF e >= j THEN e ELSE 0

NoMatch == [start |-> 0, group |-> 0, end |-> 0]

\* A match of (?:^|[^\[])!(group) that starts at i: the start of the line
\* followed by "!", or else a character other than "[" followed by "!".
MatchAt(re, s, i) ==
    IF i = 1 /\ s[1] = Bang /\ GroupEnd(re, s, 2) # 0
    THEN [start |-> 1, group |-> 2, end |-> GroupEnd(re, s, 2)]
    ELSE IF i + 1 <= Len(s) /\ s[i] # "[" /\ s[i + 1] = Bang
            /\ GroupEnd(re, s, i + 2) # 0
    THEN [start |-> i, group |-> i + 2, end |-> GroupEnd(re, s, i + 2)]
    ELSE NoMatch

\* Regex::captures_iter: the matches from i on, leftmost first, each search
\* starting where the match before it ended.
RECURSIVE CapturesIter(_, _, _)
CapturesIter(re, s, i) ==
    IF i > Len(s) THEN <<>>
    ELSE LET m == MatchAt(re, s, i)
         IN  IF m = NoMatch THEN CapturesIter(re, s, i + 1)
             ELSE <<m>> \o CapturesIter(re, s, m.end + 1)

\* group_match.parse::<i32>() of a group of at most nine digits.
RECURSIVE ParseDigits(_, _)
ParseDigits(ds, acc) ==
    IF ds = <<>> THEN acc ELSE ParseDigits(Tail(ds), 10 * acc + DigitValue(ds[1]))

ParseI32(g) == IF g[1] = "-" THEN 0 - ParseDigits(Tail(g), 0) ELSE ParseDigits(g, 0)

\* lines 715-719: the index of `!N`; a negative i32 cast to usize is above
\* every length, it is kept negative here.
HistoryNumber_zeroBased(n, len) == IF n < 0 THEN len + n - 1 ELSE n

HistoryNumber(n, len) == IF n < 0 THEN len + n ELSE n - 1

\* Vec::get: the entry at a 0-based index, if there is one.
InRange(h, i) == 0 <= i /\ i < Len(h)

\* lines 739-743: the 0-based index of the last entry that starts with
\* word, -1 if there is none.
StartsWithWord(entry, word) ==
    Len(entry) >= Len(word) /\ SubSeq(entry, 1, Len(word)) = word

FindEntry_first(h, word) ==
    LET S == {i \in 1..Len(h) : StartsWithWord(h[i], word)}
    IN  IF S = {} THEN 0 - 1 ELSE (CHOOSE i \in S : \A k \in S : i <= k) - 1

FindEntry(h, word) ==
    LET S == {i \in 1..Len(h) : StartsWithWord(h[i], word)}
    IN  IF S = {} THEN 0 - 1 ELSE (CHOOSE i \in S : \A k \in S : k <= i) - 1

\* The value of a loop over matches: the processed line, or the event that
\* was not found.
Processed(text) == [found |-> TRUE, text |-> text]
NotFound(event) == [found |-> FALSE, text |-> event]

\* lines 710-727: the matches ms of NUMBER_RE in the input, from the k-th.
RECURSIVE NumberLoop(_, _, _, _, _)
NumberLoop(ms, k, line, processed, h) ==
    IF k > Len(ms) THEN Processed(processed)
    ELSE LET full_match == SubSeq(line, ms[k].start, ms[k].end)
             group_match == SubSeq(line, ms[k].group, ms[k].end)
             history_number == HistoryNumber(ParseI32(group_match), Len(h))
         IN  IF InRange(h, history_number)
             THEN NumberLoop(ms, k + 1, line,
                             Replace(processed, full_match, h[history_number + 1]), h)
             ELSE NotFound(full_match)

\* lines 734-750: the matches ms of STRING_RE in the line as it was when
\* the loop began, from the k-th.
RECURSIVE StringLoop(_, _, _, _, _)
StringLoop(ms, k, line, processed, h) ==
    IF k > Len(ms) THEN Processed(processed)
    ELSE LET full_match == SubSeq(line, ms[k].start, ms[k].end)
             group_match == SubSeq(line, ms[k].group, ms[k].end)
             found == FindEntry(h, group_match)
         IN  IF InRange(h, found)
             THEN StringLoop(ms, k + 1, line,
                             Replace(processed, full_match, h[found + 1]), h)
             ELSE NotFound(full_match)

\* lines 701-704: "!!" becomes the last entry, if there is one.
ReplaceBangBang(line, h) ==
    IF h # <<>> THEN Replace(line, <<Bang, Bang>>, h[Len(h)]) ELSE line

\* lines 701-750: the expansions in their order.
Expand(line, h) ==
    LET numbered == NumberLoop(CapturesIter("NUMBER_RE", line, 1), 1, line,
                               ReplaceBangBang(line, h), h)
    IN  IF ~numbered.found THEN numbered
        ELSE StringLoop(CapturesIter("STRING_RE", numbered.text, 1), 1,
                        numbered.text, numbered.text, h)

\* lines 752-754: the processed line is pushed unless it is the last entry.
Pushes_always(processed, h) == TRUE

Pushes_never(processed, h) == FALSE

Pushes(processed, h) == h = <<>> \/ processed # h[Len(h)]

\* The values of HistoryExpansion (lines 56-60, 761-765).
Expanded(text) == [kind |-> "Expanded", text |-> text]
EventNotFound(text) == [kind |-> "EventNotFound", text |-> text]
Unchanged == [kind |-> "Unchanged", text |-> <<>>]

\* lines 752-759: the in-memory history and the lines written to the
\* history file after a call whose loops gave e.
HistoryAfter_always(h, e) ==
    IF Pushes(e.text, h) THEN Append(h, e.text) ELSE h

HistoryAfter_replace(h, e) ==
    IF e.found /\ Pushes(e.text, h)
    THEN IF h = <<>> THEN <<e.text>> ELSE [h EXCEPT ![Len(h)] = e.text]
    ELSE h

HistoryAfter(h, e) ==
    IF e.found /\ Pushes(e.text, h) THEN Append(h, e.text) ELSE h

WrittenAfter_noFile(w, h, e, hf) ==
    IF HistoryAfter(h, e) # h THEN Append(w, e.text) ELSE w

WrittenAfter(w, h, e, hf) ==
    IF HistoryAfter(h, e) # h /\ hf # {} THEN Append(w, e.text) ELSE w

\* str::trim (line 639): the line without the white space at its ends.
Trim_none(s) == s

RECURSIVE Trim(_)
Trim(s) ==
    IF s = <<>> THEN s
    ELSE IF s[1] = " " THEN Trim(Tail(s))
    ELSE IF s[Len(s)] = " " THEN Trim(SubSeq(s, 1, Len(s) - 1))
    ELSE s

\* Lines typed at the prompt: plain commands, a line of one bang token
\* (`!!`, `!N`, `!-N`, `!word`), tokens inside a line.
HistoryEntries == {<<"a">>, <<"a", "b">>, <<"b">>}
BangNumbers == {<<ToString(n)>> : n \in 0..(MaxHistory + 1)} \cup {<<"1", "0">>}
BangWords == {<<"a">>, <<"a", "b">>, <<"b">>, <<"x">>, <<"b", "1">>}
BangTokens ==
    {<<Bang, Bang>>}
        \cup {<<Bang>> \o n : n \in BangNumbers}
        \cup {<<Bang, "-">> \o n : n \in BangNumbers}
        \cup {<<Bang>> \o w : w \in BangWords}
LineInputs ==
    HistoryEntries \cup BangTokens
        \cup {<<"b", " ", Bang, Bang>>, <<"b", Bang, "1">>, <<"[", Bang, "1">>,
              <<"[", Bang, "a">>, <<"b", " ", Bang, "a">>, <<" ">>, <<" ", "b", " ">>}

\* Histories read from the history file when the shell starts.
InitHistories == UNION {[1..n -> HistoryEntries] : n \in 0..(MaxHistory - 1)}

\* What the parser yields for a line (conch_parser's iterator): up to
\* MaxCmds commands, and after them either the end of the input or one
\* error, which ends the iteration.
MaxCmds == 2
ParseResults ==
    UNION {{[i \in 1..n |-> "Ok"], [i \in 1..(n + 1) |-> IF i <= n THEN "Ok" ELSE "Err"]} :
              n \in 0..MaxCmds}

\* lines 861-900: the status of an item: what interpret returned for a
\* command, EXIT_FAILURE for an error of the parser.
ItemStatus_critical(item, interpreted) ==
    IF item = "Ok" THEN interpreted ELSE EXIT_CRITICAL_FAILURE

ItemStatus(item, interpreted) ==
    IF item = "Ok" THEN interpreted ELSE EXIT_FAILURE

\* lines 831-835: get_line returns the line the user ended with Enter; it
\* starts from the text input holds.  An empty line is skipped.
ReadLine ==
    /\ pc = "prompt"
    /\ Len(history) < MaxHistory
    /\ \E line \in LineInputs \cup {input} :
         /\ input' = Trim(line)
         /\ pc' = IF Trim(line) = <<>> THEN "prompt" ELSE "expand"
    /\ expansion' = NoExpansion
    /\ parser' = NoParser
    /\ exit_status' = EXIT_SUCCESS
    /\ UNCHANGED <<edit_vars, redirects, idx, fd_redirects, status, procFds, fs, history_file,
                   fd_mappings, command, background, result, ret, ran, child,
                   spawn_ret, last_exit_status, lookup_vars, history,
                   history_written>>

\* history_expansion, lines 700-766.
HistoryExpansion ==
    /\ pc = "expand"
    /\ LET e == Expand(input, history)
       IN  /\ history' = HistoryAfter(history, e)
           /\ history_written' = WrittenAfter(history_written, history, e, history_file)
           /\ expansion' = IF ~e.found THEN EventNotFound(e.text)
                           ELSE IF input = e.text THEN Unchanged
                           ELSE Expanded(e.text)
    /\ pc' = "match"
    /\ UNCHANGED <<edit_vars, redirects, idx, fd_redirects, status, procFds, fs, history_file,
                   fd_mappings, command, background, result, ret, ran, child,
                   spawn_ret, last_exit_status, lookup_vars, input, parser,
                   exit_status>>

\* lines 838-841: the expanded text becomes the input of the next get_line.
MatchExpanded_handled ==
    /\ pc = "match"
    /\ expansion.kind = "Expanded"
    /\ input' = expansion.text
    /\ \E ys \in ParseResults : parser' = [yields |-> ys, pos |-> 0]
    /\ pc' = "handle"
    /\ UNCHANGED <<edit_vars, redirects, idx, fd_redirects, status, procFds, fs, history_file,
                   fd_mappings, command, background, result, ret, ran, child,
                   spawn_ret, last_exit_status, lookup_vars, history,
                   history_written, expansion, exit_status>>

MatchExpanded ==
    /\ pc = "match"
    /\ expansion.kind = "Expanded"
    /\ input' = expansion.text
    /\ pc' = "prompt"
    /\ UNCHANGED <<edit_vars, redirects, idx, fd_redirects, status, procFds, fs, history_file,
                   fd_mappings, command, background, result, ret, ran, child,
                   spawn_ret, last_exit_status, lookup_vars, history,
                   history_written, expansion, parser, exit_status>>

\* lines 842-844, 852: the event is reported and the line dropped.
MatchEventNotFound ==
    /\ pc = "match"
    /\ expansion.kind = "EventNotFound"
    /\ input' = <<>>
    /\ pc' = "prompt"
    /\ UNCHANGED <<edit_vars, redirects, idx, fd_redirects, status, procFds, fs, history_file,
                   fd_mappings, command, background, result, ret, ran, child,
                   spawn_ret, last_exit_status, lookup_vars, history,
                   history_written, expansion, parser, exit_status>>

\* lines 845-846, 856-859: the line goes to handle_input, which parses it.
MatchUnchanged ==
    /\ pc = "match"
    /\ expansion.kind = "Unchanged"
    /\ \E ys \in ParseResults : parser' = [yields |-> ys, pos |-> 0]
    /\ exit_status' = EXIT_SUCCESS
    /\ pc' = "handle"
    /\ UNCHANGED <<edit_vars, redirects, idx, fd_redirects, status, procFds, fs, history_file,
                   fd_mappings, command, background, result, ret, ran, child,
                   spawn_ret, last_exit_status, lookup_vars, history,
                   history_written, input, expansion>>

\* line 862: interpret(self, &cmd) (crate::interpreter) runs the command
\* through execute_command and returns its status; execute_command sets
\* last_exit_status to it unless it left early.
Interpret ==
    /\ pc = "handle"
    /\ parser.pos < Len(parser.yields)
    /\ parser.yields[parser.pos + 1] = "Ok"
    /\ \E s \in ExitCodes \cup {EXIT_FAILURE} :
         /\ exit_status' = ItemStatus("Ok", s)
         /\ last_exit_status' \in {s, last_exit_status}
    /\ parser' = [parser EXCEPT !.pos = @ + 1]
    /\ UNCHANGED <<edit_vars, pc, redirects, idx, fd_redirects, status, procFds, fs, history_file,
                   fd_mappings, command, background, result, ret, ran, child,
                   spawn_ret, lookup_vars, history, history_written, input,
                   expansion>>

\* lines 863-900: an error of the parser is reported.
ParseErrorArm ==
    /\ pc = "handle"
    /\ parser.pos < Len(parser.yields)
    /\ parser.yields[parser.pos + 1] = "Err"
    /\ last_exit_status' = EXIT_FAILURE
    /\ exit_status' = ItemStatus("Err", exit_status)
    /\ parser' = [parser EXCEPT !.pos = @ + 1]
    /\ UNCHANGED <<edit_vars, pc, redirects, idx, fd_redirects, status, procFds, fs, history_file,
                   fd_mappings, command, background, result, ret, ran, child,
                   spawn_ret, lookup_vars, history, history_written, input,
                   expansion>>

\* lines 904, 846-852: handle_input returns Ok(exit_status); the loop clears
\* the input and goes on.
HandleReturn ==
    /\ pc = "handle"
    /\ parser.pos = Len(parser.yields)
    /\ input' = <<>>
    /\ pc' = "prompt"
    /\ UNCHANGED <<edit_vars, redirects, idx, fd_redirects, status, procFds, fs, history_file,
                   fd_mappings, command, background, result, ret, ran, child,
                   spawn_ret, last_exit_status, lookup_vars, history,
                   history_written, expansion, parser, exit_status>>

\* The line loop of a shell that started with or without a history file.
InitInput ==
    /\ pc = "prompt"
    /\ history \in InitHistories
    /\ history_file \in {{}, {HistoryFd}}
    /\ procFds = ShellFds(history_file)
    /\ history_written = <<>>
    /\ input = <<>>
    /\ expansion = NoExpansion
    /\ parser = NoParser
    /\ exit_status = EXIT_SUCCESS
    /\ cursor_position = 0
    /\ insert_mode = FALSE
    /\ escaped = FALSE
    /\ history_entry_to_display = 0 - 1
    /\ input_stash = <<>>
    /\ keys = <<>>
    /\ last_exit_status = EXIT_SUCCESS
    /\ redirects = <<>>
    /\ idx = 0
    /\ fd_redirects = <<>>
    /\ status = "Ok"
    /\ fs = InitFs
    /\ fd_mappings = <<>>
    /\ command = <<>>
    /\ background = FALSE
    /\ result = 0
    /\ ret = 0
    /\ ran = "none"
    /\ child = NoChild
    /\ spawn_ret = 0
    /\ exe_files = InitExeFiles
    /\ env_path = <<DirA, DirB>>
    /\ pwd = DirH
    /\ spawn_args = <<>>

NextInput ==
    \/ ReadLine
    \/ HistoryExpansion
    \/ MatchExpanded
    \/ MatchEventNotFound
    \/ MatchUnchanged
    \/ Interpret
    \/ ParseErrorArm
    \/ HandleReturn

SpecInput == InitInput /\ [][NextInput]_vars

(***************************************************************************)
(* Shell::get_line                                                         *)
(***************************************************************************)
\* The bytes get_line tells apart.
ENTER == 10
ESC == 27
BACKSPACE == 127
FIRST_REGULAR == 32
LEFT_BRACKET == 91
UP_ARROW == 65
DOWN_ARROW == 66
RIGHT_ARROW == 67
LEFT_ARROW == 68
END_KEY == 70
HOME_KEY == 72
KEY_2 == 50
KEY_3 == 51
KEY_5 == 53
KEY_6 == 54
TILDE == 126
SEMICOLON == 59

\* The lines get_line builds are kept to MaxLine characters.
MaxLine == 2

\* Bytes read as c1 outside an escape sequence: the user types a and space
\* as text, Enter, ESC, a control code (tab) and backspace.
TypedBytes == {97, 32}
NormalBytes == TypedBytes \cup {ENTER, ESC, 9, BACKSPACE}

\* c1[0] as char.
AsChar(b) ==
    CASE b = 97 -> "a"
      [] b = 32 -> " "
      [] b = LEFT_BRACKET -> "["
      [] OTHER -> "?"

\* A String is its UTF-8 bytes, and len() counts bytes.  `b as char` is the
\* character U+00b: one byte for b < 0x80, given as the character itself;
\* two bytes for a byte from 0x80 on, for 0xe9 the bytes C3 A9.
Utf8(b) == IF b < 128 THEN <<AsChar(b)>> ELSE <<"C3", "A9">>

\* str::is_char_boundary(i): i is the start or the end of the line, or the
\* byte at i does not continue a character.
IsBoundary(line, i) ==
    i = 0 \/ i = Len(line) \/ (i < Len(line) /\ line[i + 1] # "A9")

\* String::remove(i) takes out the character that starts at byte i, and
\* String::insert(i, ch) puts the bytes of ch in at byte i, i from 0.
RemoveAt(line, i) ==
    SubSeq(line, 1, i)
        \o SubSeq(line, i + (IF i < Len(line) /\ line[i + 1] = "C3" THEN 3 ELSE 2),
                  Len(line))
InsertAt(line, i, ch) == SubSeq(line, 1, i) \o ch \o SubSeq(line, i + 1, Len(line))

\* lines 670-684: a regular character: put in at the cursor, or, with
\* insert_mode set, put over the character at the cursor (at the end of the
\* line it is pushed).
TypeChar_shift(line, pos, ch, overwrite) == InsertAt(line, pos, ch)

TypeChar(line, pos, ch, overwrite) ==
    IF ~overwrite THEN InsertAt(line, pos, ch)
    ELSE IF pos # Len(line)
    THEN SubSeq(line, 1, pos) \o ch \o SubSeq(line, pos + 2, Len(line))
    ELSE line \o ch

\* The editor's state as one value.
CurrentEditor ==
    [input |-> input, cursor_position |-> cursor_position,
     history_entry_to_display |-> history_entry_to_display,
     input_stash |-> input_stash, insert_mode |-> insert_mode]

\* lines 470-472, 548-550: the stash is taken when the recall begins.
StashAfter_always(e) == e.input

StashAfter(e) ==
    IF e.history_entry_to_display = 0 - 1 THEN e.input ELSE e.input_stash

\* The line becomes entry i (from 0) of the history, the cursor at its end.
Recall_keepCursor(e, h, i) ==
    [e EXCEPT !.input = h[i + 1], !.history_entry_to_display = i,
              !.input_stash = e.input]

Recall(e, h, i) ==
    [e EXCEPT !.input = h[i + 1], !.cursor_position = Len(h[i + 1]),
              !.history_entry_to_display = i, !.input_stash = StashAfter(e)]

\* The line becomes the stash again and the recall ends.
Restore(e) ==
    [e EXCEPT !.input = e.input_stash, !.cursor_position = Len(e.input_stash),
              !.history_entry_to_display = 0 - 1]

\* lines 546-563: up arrow.
UpArrow_newest(e, h) == IF h # <<>> THEN Recall(e, h, Len(h) - 1) ELSE e

UpArrow(e, h) ==
    IF h # <<>> /\ e.history_entry_to_display # 0
    THEN IF e.history_entry_to_display = 0 - 1 THEN Recall(e, h, Len(h) - 1)
         ELSE Recall(e, h, e.history_entry_to_display - 1)
    ELSE e

\* lines 565-583: down arrow.
DownArrow(e, h) ==
    IF e.history_entry_to_display # 0 - 1
    THEN IF Len(h) - 1 > e.history_entry_to_display
         THEN Recall(e, h, e.history_entry_to_display + 1)
         ELSE Restore(e)
    ELSE e

\* lines 468-483: PageUp.
PageUp(e, h) ==
    IF h # <<>> /\ e.history_entry_to_display # 0 THEN Recall(e, h, 0) ELSE e

\* lines 485-496: PageDown.
PageDown(e) == IF e.history_entry_to_display # 0 - 1 THEN Restore(e) ELSE e

\* lines 505-527: Delete.
DeleteKey(e) ==
    IF Len(e.input) - e.cursor_position > 0
    THEN [e EXCEPT !.input = RemoveAt(e.input, e.cursor_position)]
    ELSE e

\* lines 643-661: backspace.
Backspace(e) ==
    IF e.input # <<>> /\ e.cursor_position > 0
    THEN [e EXCEPT !.input = RemoveAt(e.input, e.cursor_position - 1),
                   !.cursor_position = @ - 1]
    ELSE e

\* lines 462-624: the arm of a two-byte sequence "[" c2: up, down, right,
\* left, End, Home; any other byte only ends the sequence.
BracketKey(e, h, c2) ==
    CASE c2 = UP_ARROW -> UpArrow(e, h)
      [] c2 = DOWN_ARROW -> DownArrow(e, h)
      [] c2 = RIGHT_ARROW ->
           IF e.cursor_position < Len(e.input)
           THEN [e EXCEPT !.cursor_position = @ + 1] ELSE e
      [] c2 = LEFT_ARROW ->
           IF e.cursor_position > 0 THEN [e EXCEPT !.cursor_position = @ - 1] ELSE e
      [] c2 = END_KEY -> [e EXCEPT !.cursor_position = Len(e.input)]
      [] c2 = HOME_KEY -> [e EXCEPT !.cursor_position = 0]
      [] OTHER -> e

\* lines 466-543: the arm of a three-byte sequence "[" c2 c3: PageUp,
\* PageDown, Insert, Delete; any other pair only ends the sequence.
TildeKey(e, h, c2, c3) ==
    CASE c2 = KEY_5 /\ c3 = TILDE -> PageUp(e, h)
      [] c2 = KEY_6 /\ c3 = TILDE -> PageDown(e)
      [] c2 = KEY_2 /\ c3 = TILDE -> [e EXCEPT !.insert_mode = ~e.insert_mode]
      [] c2 = KEY_3 /\ c3 = TILDE -> DeleteKey(e)
      [] OTHER -> e

\* The editor's variables take the values of e.
SetEditor(e) ==
    /\ input' = e.input
    /\ cursor_position' = e.cursor_position
    /\ history_entry_to_display' = e.history_entry_to_display
    /\ input_stash' = e.input_stash
    /\ insert_mode' = e.insert_mode

\* What no step of get_line touches.
rest_vars ==
    <<redirects, idx, fd_redirects, status, procFds, fs, history_file, fd_mappings,
      command, background, result, ret, ran, child, spawn_ret, last_exit_status,
      lookup_vars, history, history_written, expansion, parser, exit_status>>

\* lines 631-692: a byte read outside an escape sequence.  Every byte but ESC
\* ends a recall; Enter trims the line; a control code does nothing.
NormalKey(e, b) ==
    LET e1 == IF b # ESC THEN [e EXCEPT !.history_entry_to_display = 0 - 1] ELSE e
    IN  CASE b = ENTER ->
               [e1 EXCEPT !.cursor_position = 0, !.input = Trim(e1.input)]
          [] b = BACKSPACE -> Backspace(e1)
          [] b # ENTER /\ b < FIRST_REGULAR -> e1
          [] OTHER ->
               [e1 EXCEPT !.input = TypeChar(e1.input, e1.cursor_position,
                                             Utf8(b), e1.insert_mode),
                          !.cursor_position = @ + 1]

\* lines 626-629: in the escaped state a byte other than "[" is dropped.
EscapedKey_typed(e, b) == NormalKey(e, b)

EscapedKey(e, b) == e

\* The calls that panic.  String::insert and String::remove panic when the
\* index is no character boundary (lines 647, 672), replace_range when an end
\* of the range is none, and `from_utf8(&[c1[0]]).unwrap()` when the byte is
\* no UTF-8 text of its own (lines 677-679).
NormalPanics(e, b) ==
    CASE b = BACKSPACE ->
           /\ e.input # <<>>
           /\ e.cursor_position > 0
           /\ ~IsBoundary(e.input, e.cursor_position - 1)
      [] b # BACKSPACE /\ b >= FIRST_REGULAR ->
           IF ~e.insert_mode THEN ~IsBoundary(e.input, e.cursor_position)
           ELSE /\ e.cursor_position # Len(e.input)
                /\ \/ b >= 128
                   \/ ~IsBoundary(e.input, e.cursor_position)
                   \/ ~IsBoundary(e.input, e.cursor_position + 1)
      [] OTHER -> FALSE

\* lines 506-510: the Delete key calls input.remove(cursor_position).
DeletePanics(e) ==
    /\ Len(e.input) - e.cursor_position > 0
    /\ ~IsBoundary(e.input, e.cursor_position)

\* The thread has panicked: no variable of the editor changes any more.
Panic ==
    /\ pc' = "panic"
    /\ UNCHANGED <<input, cursor_position, history_entry_to_display, input_stash,
                   insert_mode, escaped>>

\* lines 453-456, 631-692: c1, one of bytes, is read outside an escape
\* sequence.  A typed character that makes the line longer is read while the
\* line has fewer than MaxLine bytes.
ReadC1NormalOf(bytes) ==
    /\ pc = "c1"
    /\ ~escaped
    /\ \E b \in bytes :
          /\ (b >= FIRST_REGULAR /\ b # BACKSPACE
                /\ ~(insert_mode /\ cursor_position # Len(input)))
                => Len(input) < MaxLine
          /\ keys' = <<b>>
          /\ IF NormalPanics(CurrentEditor, b) THEN Panic
             ELSE /\ SetEditor(NormalKey(CurrentEditor, b))
                  /\ escaped' = (b = ESC)
                  /\ pc' = IF b = ENTER THEN "line" ELSE "c1"
    /\ UNCHANGED rest_vars

\* The user types ASCII text.
ReadC1Normal == ReadC1NormalOf(NormalBytes)

\* The user types the byte 0xe9 as well.
ReadC1Bytes == ReadC1NormalOf(NormalBytes \cup {233})

\* lines 453-461, 626-629: c1 is read in the escaped state.
ReadC1Escaped ==
    /\ pc = "c1"
    /\ escaped
    /\ \E b \in {LEFT_BRACKET, ESC, 97, TILDE} :
          /\ keys' = <<b>>
          /\ IF b = LEFT_BRACKET
             THEN /\ pc' = "c2"
                  /\ UNCHANGED <<input, cursor_position, history_entry_to_display,
                                 input_stash, insert_mode, escaped>>
             ELSE /\ pc' = "c1"
                  /\ escaped' = FALSE
                  /\ SetEditor(EscapedKey(CurrentEditor, b))
    /\ UNCHANGED rest_vars

\* lines 460-465, 545-624: c2 is read.
ReadC2 ==
    /\ pc = "c2"
    /\ \E b \in {UP_ARROW, DOWN_ARROW, RIGHT_ARROW, LEFT_ARROW, END_KEY, HOME_KEY,
                KEY_2, KEY_3, KEY_5, KEY_6, 97} :
          /\ keys' = Append(keys, b)
          /\ IF b \in {KEY_2, KEY_3, KEY_5, KEY_6}
             THEN /\ pc' = "c3"
                  /\ UNCHANGED <<input, cursor_position, history_entry_to_display,
                                 input_stash, insert_mode, escaped>>
             ELSE /\ pc' = "c1"
                  /\ escaped' = FALSE
                  /\ SetEditor(BracketKey(CurrentEditor, history, b))
    /\ UNCHANGED rest_vars

\* lines 464-543: c3 is read.
ReadC3 ==
    /\ pc = "c3"
    /\ \E b \in {TILDE, SEMICOLON, 97} :
          /\ keys' = Append(keys, b)
          /\ IF keys[2] = KEY_3 /\ b = SEMICOLON
             THEN /\ pc' = "c4"
                  /\ UNCHANGED <<input, cursor_position, history_entry_to_display,
                                 input_stash, insert_mode, escaped>>
             ELSE IF keys[2] = KEY_3 /\ b = TILDE /\ DeletePanics(CurrentEditor)
             THEN Panic
             ELSE /\ pc' = "c1"
                  /\ escaped' = FALSE
                  /\ SetEditor(TildeKey(CurrentEditor, history, keys[2], b))
    /\ UNCHANGED rest_vars

\* lines 529-531: the first byte after "ESC [ 3 ;" is read.
ReadC4 ==
    /\ pc = "c4"
    /\ \E b \in {KEY_5, TILDE} :
          /\ keys' = Append(keys, b)
          /\ pc' = "c5"
    /\ UNCHANGED <<input, cursor_position, history_entry_to_display, input_stash,
                   insert_mode, escaped>>
    /\ UNCHANGED rest_vars

\* lines 532-535: the second byte after "ESC [ 3 ;" is read.
ReadC5 ==
    /\ pc = "c5"
    /\ \E b \in {KEY_5, TILDE} :
          /\ keys' = Append(keys, b)
          /\ pc' = "c1"
          /\ escaped' = FALSE
    /\ UNCHANGED <<input, cursor_position, history_entry_to_display, input_stash,
                   insert_mode>>
    /\ UNCHANGED rest_vars

\* get_line is entered after print_prompt has shown the pre-filled line
\* (lines 382-386, 441-451), with a history of no, one or three entries and
\* a line that is empty or pre-filled.
InitEdit ==
    /\ pc = "c1"
    /\ redirects = <<>>
    /\ idx = 0
    /\ fd_redirects = <<>>
    /\ status = EXIT_SUCCESS
    /\ procFds = {}
    /\ fs = {}
    /\ history_file = {}
    /\ fd_mappings = <<>>
    /\ command = <<>>
    /\ background = FALSE
    /\ result = EXIT_SUCCESS
    /\ ret = EXIT_SUCCESS
    /\ ran = <<>>
    /\ child = NoChild
    /\ spawn_ret = EXIT_SUCCESS
    /\ last_exit_status = EXIT_SUCCESS
    /\ exe_files = {}
    /\ env_path = <<>>
    /\ pwd = <<>>
    /\ spawn_args = <<>>
    /\ history \in {<<>>, <<<<"b">>>>, <<<<"a", "b">>, <<"b">>, <<"a">>>>}
    /\ history_written = <<>>
    /\ input \in {<<>>, <<"a">>}
    /\ expansion = NoExpansion
    /\ parser = NoParser
    /\ exit_status = EXIT_SUCCESS
    /\ cursor_position = Len(input)
    /\ insert_mode = FALSE
    /\ escaped = FALSE
    /\ history_entry_to_display = 0 - 1
    /\ input_stash = <<>>
    /\ keys = <<>>

NextEdit ==
    \/ ReadC1Normal
    \/ ReadC1Escaped
    \/ ReadC2
    \/ ReadC3
    \/ ReadC4
    \/ ReadC5

SpecEdit == InitEdit /\ [][NextEdit]_vars

\* get_line on a terminal that sends bytes from 0x80 on too.
NextBytes ==
    \/ ReadC1Bytes
    \/ ReadC1Escaped
    \/ ReadC2
    \/ ReadC3
    \/ ReadC4
    \/ ReadC5

SpecBytes == InitEdit /\ [][NextBytes]_vars

(***************************************************************************)
(* Properties                                                              *)
(***************************************************************************)
\* The second loop has processed entries 1..idx of the list and fd_redirects
\* is the table after entry idx.
Resolving == pc \in {"resolve", "resolved"}

\* Entries that set slot fd in the second loop.
Touches(r, fd) == r.kind \notin PipeKinds /\ r.fd = fd

\* The last of the first n entries that sets slot fd; 0 if none does.
LastTouch(rs, n, fd) ==
    LET S == {j \in 1..n : Touches(rs[j], fd)}
    IN  IF S = {} THEN 0 ELSE CHOOSE j \in S : \A k \in S : k <= j

HasPipe(rs, fd) == \E j \in 1..Len(rs) : rs[j].kind \in PipeKinds /\ PipeSlot(rs[j]) = fd

\* What slot fd refers to after the first n entries, read off the list from
\* the back: the last entry on fd decides, a Duplicate by what its source
\* referred to just before it.
RECURSIVE RefTarget(_, _, _)
RefTarget(rs, n, fd) ==
    LET j == LastTouch(rs, n, fd)
    IN  IF j = 0
        THEN IF fd = STDIN /\ HasPipe(rs, STDIN) THEN Ofd("pipe_r", 0)
             ELSE IF fd = STDOUT /\ HasPipe(rs, STDOUT) THEN Ofd("pipe_w", 0)
             ELSE IF fd \in StdFds THEN Ofd("tty", fd)
             ELSE Ofd("closed", 0)
        ELSE IF rs[j].kind \in FileKinds THEN Ofd("open", j)
        ELSE IF rs[j].kind = "Close" THEN Ofd("closed", 0)
        ELSE RefTarget(rs, j - 1, rs[j].src)

SameTarget(a, b) == a.tag = b.tag /\ a.ofd = b.ofd /\ a.path = b.path

\* C1: a Duplicate(dst, src) processed after a file or pipe redirect on src
\* leaves dst on the same open file or pipe as src, and when that redirect
\* is still the one in effect on src, on the file it opened (the pipe it
\* carried), not on the shell's own descriptor src.
Thm_C1 ==
    (Resolving /\ idx >= 1 /\ redirects[idx].kind = "Duplicate") =>
        LET r == redirects[idx]
            j == LastTouch(redirects, idx - 1, r.src)
        IN  /\ ((\E k \in 1..(idx - 1) :
                     redirects[k].kind \in FileKinds /\ redirects[k].fd = r.src)
                \/ HasPipe(redirects, r.src)) =>
                   /\ r.fd \in DOMAIN fd_redirects
                   /\ r.src \in DOMAIN fd_redirects
                   /\ SameTarget(fd_redirects[r.fd], fd_redirects[r.src])
            /\ (j > 0 /\ redirects[j].kind \in FileKinds) =>
                   /\ fd_redirects[r.fd].tag = "File"
                   /\ fd_redirects[r.fd].ofd = Ofd("open", j)
                   /\ fd_redirects[r.fd].path = redirects[j].path
            /\ (j = 0 /\ HasPipe(redirects, r.src)) =>
                   /\ fd_redirects[r.fd].tag \in {"PipeReader", "PipeWriter"}
                   /\ fd_redirects[r.fd].ofd # Ofd("tty", r.src)

Wit_C1 ==
    /\ Resolving /\ idx = 2
    /\ redirects[1].kind = "Write" /\ redirects[1].fd = STDOUT
    /\ redirects[2] = Duplicate(STDERR, STDOUT)
    /\ fd_redirects[STDERR].ofd = fd_redirects[STDOUT].ofd
    /\ fd_redirects[STDERR].fd # fd_redirects[STDOUT].fd

\* C2 (as claimed): once Close(fd) has been processed, no later Duplicate
\* from fd and no later Close(fd) of the list is processed without error.
Cex_C2 ==
    (Resolving \/ pc = "returned") =>
        \A j \in 1..idx : \A i \in 1..(j - 1) :
            ~ /\ redirects[i].kind = "Close"
              /\ \/ redirects[j].kind = "Duplicate" /\ redirects[j].src = redirects[i].fd
                 \/ redirects[j].kind = "Close" /\ redirects[j].fd = redirects[i].fd

\* C3: non-pipe redirects take effect in list order: after any number of
\* entries every slot refers to what the last entry on it bound it to, a
\* Duplicate binding its destination to what the source referred to when it
\* was processed; the two orders of Duplicate(2, 1) and Write(1, p) differ.
Thm_C3 ==
    /\ Resolving =>
         \A fd \in Fds :
             IF fd \in DOMAIN fd_redirects
             THEN fd_redirects[fd].ofd = RefTarget(redirects, idx, fd)
             ELSE RefTarget(redirects, idx, fd) = Ofd("closed", 0)
    /\ (Resolving /\ idx >= 1 /\ redirects[idx].kind = "Duplicate") =>
         SameTarget(fd_redirects[redirects[idx].fd], fd_redirects[redirects[idx].src])
    /\ \A p \in {"f", "n"} :
         /\ (pc = "resolved" /\ status = "Ok"
               /\ redirects = <<Duplicate(STDERR, STDOUT), Write(STDOUT, p)>>) =>
                /\ fd_redirects[STDERR] = StdOpenedFd(STDOUT)
                /\ fd_redirects[STDOUT].tag = "File"
                /\ fd_redirects[STDOUT].path = p
         /\ (pc = "resolved" /\ status = "Ok"
               /\ redirects = <<Write(STDOUT, p), Duplicate(STDERR, STDOUT)>>) =>
                /\ fd_redirects[STDOUT].tag = "File"
                /\ fd_redirects[STDOUT].path = p
                /\ SameTarget(fd_redirects[STDERR], fd_redirects[STDOUT])

Wit_C3 ==
    /\ pc = "resolved" /\ status = "Ok"
    /\ redirects = <<Duplicate(STDERR, STDOUT), Write(STDOUT, "n")>>
    /\ fd_redirects[STDERR].tag = "StdOut"
    /\ fd_redirects[STDOUT].path = "n"

\* C4: the pipe endpoints of the list occupy slots 0 and 1 before any other
\* entry is processed, wherever they stand in the list: a Duplicate from
\* slot 1 (slot 0) that no earlier entry has rebound binds its destination
\* to the pipe writer (reader), also when PipeOut (PipeIn) comes after it.
Thm_C4 ==
    /\ (Resolving /\ idx = 0) =>
         \A i \in 1..Len(redirects) :
             redirects[i].kind \in PipeKinds =>
                 /\ PipeSlot(redirects[i]) \in DOMAIN fd_redirects
                 /\ fd_redirects[PipeSlot(redirects[i])] = PipeEntry(redirects[i])
    /\ (Resolving /\ idx >= 1 /\ redirects[idx].kind = "Duplicate") =>
         LET r == redirects[idx]
         IN  \A i \in 1..Len(redirects) :
                 (/\ redirects[i].kind \in PipeKinds
                  /\ PipeSlot(redirects[i]) = r.src
                  /\ LastTouch(redirects, idx - 1, r.src) = 0) =>
                     /\ r.fd \in DOMAIN fd_redirects
                     /\ fd_redirects[r.fd].tag = PipeEntry(redirects[i]).tag
                     /\ fd_redirects[r.fd].ofd = PipeEntry(redirects[i]).ofd

Wit_C4 ==
    /\ Resolving /\ idx = 1 /\ Len(redirects) = 2
    /\ redirects[1] = Duplicate(STDERR, STDOUT)
    /\ redirects[2].kind = "PipeOut"
    /\ fd_redirects[STDERR].tag = "PipeWriter"

\* C7 (as claimed): no step of preprocess_redirects changes the filesystem.
Cex_C7 == [][(pc \in {"pipes", "resolve"}) => UNCHANGED fs]_vars

\* C8 (as claimed): a Duplicate whose source no entry has set and that is
\* not a standard descriptor is rejected with EBADF only when the source is
\* not open in the shell process.
Cex_C8 ==
    (pc = "resolved" /\ status = "EBADF") =>
        LET r == redirects[idx + 1]
        IN  (/\ r.kind = "Duplicate"
             /\ r.src \notin StdFds
             /\ LastTouch(redirects, idx, r.src) = 0) =>
                r.src \notin DOMAIN procFds

\* C5: a Write, Append or ReadWrite redirect on a path that is a directory
\* is never processed without error: the resolver returns EISDIR at it, and
\* execute_command returns 1 with no builtin run and no process spawned.
Thm_C5 ==
    /\ (Resolving \/ pc = "returned") =>
         \A j \in 1..idx :
             ~(redirects[j].kind \in WriteKinds /\ fs[redirects[j].path] = "dir")
    /\ (/\ pc \in {"resolved", "returned"}
        /\ idx < Len(redirects)
        /\ redirects[idx + 1].kind \in WriteKinds
        /\ fs[redirects[idx + 1].path] = "dir") =>
           /\ status = "EISDIR"
           /\ ran = "none"
           /\ child = NoChild
           /\ pc = "returned" => ret = EXIT_FAILURE

Wit_C5 ==
    /\ pc = "returned" /\ status = "EISDIR" /\ ret = EXIT_FAILURE
    /\ redirects[idx + 1].kind = "Write"

\* C6: when preprocess_redirects returns an error, the command goes no
\* further than the early return: no builtin runs, nothing is spawned,
\* execute_command returns 1, and the loop can take the next line.
Thm_C6 ==
    /\ status # "Ok" =>
         /\ pc \in {"resolved", "returned"}
         /\ ran = "none"
         /\ child = NoChild
    /\ (pc = "returned" /\ status # "Ok") =>
         /\ ret = EXIT_FAILURE
         /\ ENABLED ReturnToLoop
    /\ pc = "idle" => ENABLED Call

Wit_C6 ==
    /\ pc = "returned" /\ ret = EXIT_FAILURE
    /\ status \in {"ENOENT", "EBADF"}

\* C9: between commands, and when execute_command has returned, the shell
\* holds no descriptor but its own (the terminal and the history file):
\* every file and pipe of the command's redirects has been closed.
Thm_C9 ==
    pc \in {"idle", "returned"} => DOMAIN procFds = StdFds \cup history_file

Wit_C9 ==
    /\ pc = "returned" /\ status # "Ok"
    /\ \E j \in 1..idx : redirects[j].kind \in FileKinds \cup {"PipeOut"}

\* C10: spawn returns 0 from a background start and never enters the wait;
\* from a foreground start it returns only when the child has exited, and
\* returns the child's exit code.
Thm_C10 ==
    /\ pc = "wait" => ~background
    /\ pc = "spawn_ret" =>
         IF background
         THEN spawn_ret = EXIT_SUCCESS
         ELSE child.state = "exited" /\ spawn_ret = child.code

Wit_C10 == pc = "spawn_ret" /\ background /\ child.state = "running"

\* The file a spawn runs: the path of a binary, the argument of the
\* interpreter of a script.
ProgramOf(args) == args[Len(args)]

\* An external command has been looked up, started and waited for.
ForegroundDone ==
    /\ pc = "returned"
    /\ command \notin BuiltinNames
    /\ ran = "spawn"
    /\ ~background

\* C11: when a foreground external command was started and execute_command
\* has returned, the value it returned and last_exit_status both equal the
\* exit code the child ended with, whatever the code.
Thm_C11 ==
    ForegroundDone =>
        /\ child.state = "exited"
        /\ ret = child.code
        /\ last_exit_status = child.code

Wit_C11 == ForegroundDone /\ child.code \notin {EXIT_SUCCESS, EXIT_FAILURE} /\ ret = child.code

\* C12: when the process of an external command, script or binary, cannot
\* be started, the shell keeps running: execute_command returns 2 and
\* last_exit_status is 2.
Cex_C12 ==
    (command \notin BuiltinNames /\ spawn_args # <<>> /\ pc \notin {"spawn", "wait"}
        /\ child.state = "none")
      => (pc = "returned" /\ ret = EXIT_CRITICAL_FAILURE
             /\ last_exit_status = EXIT_CRITICAL_FAILURE)

\* The command runs inside the shell: no spawn was asked for, no process
\* exists.
NothingSpawned == spawn_args = <<>> /\ child = NoChild /\ ran # "spawn"

\* C13: for every command whose name is a builtin's, the command runs
\* inside the shell and no process is spawned for it.
Cex_C13 == command \in BuiltinNames => NothingSpawned

\* The name has been looked up.
LookedUp == pc \in {"spawn", "finish"} /\ command \notin BuiltinNames /\ command # <<>>

\* The lookup failed: nothing is handed to spawn and the command's result is
\* the failure status.
LookupFailed == pc = "finish" /\ spawn_args = <<>> /\ result = EXIT_FAILURE

\* The path a name that starts with "/" or "." stands for.
DirectPath == IF command[1] = Sep THEN command ELSE pwd \o <<Sep>> \o command

\* C14: a name that starts with "/" is the path itself and a name that
\* starts with "." is the path pwd/name; the file at that path is run if it
\* exists, and if it does not the command fails, whatever PATH holds.
Thm_C14 ==
    (LookedUp /\ command[1] \in {Sep, CurDir}) =>
        IF Normalize(DirectPath) \in exe_files
        THEN pc = "spawn" /\ ProgramOf(spawn_args) = DirectPath
        ELSE LookupFailed

Wit_C14 ==
    /\ LookedUp
    /\ command[1] = CurDir
    /\ LookupFailed
    /\ \E i \in 1..Len(env_path) :
         env_path[i] # <<>> /\ env_path[i] \o <<Sep, command[Len(command)]>> \in exe_files

\* The PATH entries whose directory holds the name (an empty entry names
\* the working directory).
PathHits ==
    {i \in 1..Len(env_path) :
        (IF env_path[i] = <<>> THEN pwd ELSE env_path[i]) \o <<Sep>> \o command
            \in exe_files}

Cex_C16 ==
    (pc = "returned" /\ command \notin BuiltinNames /\ command # <<>> /\ spawn_args = <<>>)
        => (ret = EXIT_CMD_NOT_FOUND /\ last_exit_status = EXIT_CMD_NOT_FOUND)

\* The parser of handle_input has just yielded an error.
ParseErrorSeen == parser.pos >= 1 /\ parser.yields[parser.pos] = "Err"

ResultLine(exp, line) ==
    IF exp.kind = "Expanded" THEN <<exp.text>>
    ELSE IF exp.kind = "Unchanged" THEN <<line>>
    ELSE <<>>

BangWord ==
    /\ Len(input) >= 2
    /\ input[1] = Bang
    /\ input[2] \notin Digits
    /\ \A i \in 2..Len(input) : input[i] \in WordChars

Thm_C20 ==
    [][/\ (pc = "expand" /\ expansion'.kind = "EventNotFound")
            => UNCHANGED <<history, history_written>>
       /\ (pc = "match" /\ expansion.kind = "EventNotFound")
            => /\ pc' = "prompt"
               /\ input' = <<>>
               /\ parser' = NoParser
               /\ UNCHANGED <<history, history_written, last_exit_status>>]_vars

Wit_C20 ==
    /\ pc = "prompt"
    /\ expansion.kind = "EventNotFound"
    /\ history # <<>>
    /\ history_file # {}
    /\ history_written # <<>>
    /\ parser = NoParser

\* C21: the text of an EventNotFound is the bang token itself: it begins
\* with the "!" and holds no character that stood before it in the line.
Cex_C21 == expansion.kind = "EventNotFound" => expansion.text[1] = Bang

\* C22: with an empty history the line `!!` gives EventNotFound and is not
\* appended to the history.
Cex_C22 ==
    [][(pc = "expand" /\ history = <<>> /\ input = <<Bang, Bang>>)
          => (expansion'.kind = "EventNotFound" /\ history' = <<>>)]_vars

\* No two adjacent entries of h are equal.
NoAdjacentEqual(h) == \A i \in 1..(Len(h) - 1) : h[i] # h[i + 1]

\* The last entry of h, as a sequence of at most one line.
LastOf(h) == IF h = <<>> THEN <<>> ELSE <<h[Len(h)]>>

\* C23: a history with no two adjacent equal entries stays one; an accepted
\* line equal to the last entry is not appended, every other accepted line
\* is appended, also when an older entry equals it.
Thm_C23 ==
    [][/\ NoAdjacentEqual(history) => NoAdjacentEqual(history')
       /\ (pc = "expand" /\ expansion'.kind # "EventNotFound")
            => LET line == ResultLine(expansion', input)
               IN  IF line = LastOf(history) THEN history' = history
                   ELSE history' = history \o line]_vars

Wit_C23 ==
    /\ pc = "match"
    /\ Len(history) = MaxHistory
    /\ NoAdjacentEqual(history)
    /\ history[Len(history)] = history[Len(history) - 2]
    /\ ResultLine(expansion, input) = LastOf(history)

\* h is g or g with further entries after it.
IsPrefix(g, h) == Len(g) <= Len(h) /\ SubSeq(h, 1, Len(g)) = g

\* C24: every step leaves the earlier history, and the lines written to the
\* history file, as a prefix of the later one and adds at most one entry;
\* an empty or all-blank line adds nothing.
Thm_C24 ==
    [][/\ IsPrefix(history, history')
       /\ Len(history') <= Len(history) + 1
       /\ IsPrefix(history_written, history_written')
       /\ Len(history_written') <= Len(history_written) + 1
       /\ (pc = "prompt" /\ pc' = "prompt")
            => UNCHANGED <<history, history_written>>]_vars

Wit_C24 ==
    /\ pc = "match"
    /\ Len(history) = MaxHistory
    /\ Len(history_written) = MaxHistory - 1
    /\ expansion.kind = "Expanded"

\* C25: an expanded line is not handed to handle_input in the iteration
\* that expanded it: the loop goes back to the prompt with the expanded text
\* as input, and handle_input is only entered from an expansion that
\* returned Unchanged.
Thm_C25 ==
    [][/\ (pc = "match" /\ expansion.kind = "Expanded")
            => (pc' = "prompt" /\ input' = expansion.text /\ parser' = NoParser)
       /\ (pc # "handle" /\ pc' = "handle")
            => (pc = "match" /\ expansion.kind = "Unchanged" /\ input' = input)]_vars

Wit_C25 ==
    /\ pc = "handle"
    /\ input = <<"b", " ", "a">>
    /\ history[Len(history)] = input
    /\ expansion.kind = "Unchanged"

TypesChar ==
    /\ pc = "c1"
    /\ ~escaped
    /\ pc' = "c1"
    /\ keys'[1] \in TypedBytes

InRecall == history_entry_to_display # 0 - 1

\* C28: the line in progress is stashed when a recall begins, by the first
\* up arrow or PageUp, and no later step of the recall writes the stash; up
\* and down arrows walk the history, and the down arrow pressed on the
\* newest entry puts the stashed line back and ends the recall.
Thm_C28 ==
    [][/\ (InRecall /\ InRecall') => input_stash' = input_stash
       /\ (~InRecall /\ InRecall')
            => /\ input_stash' = input
               /\ keys' \in {<<LEFT_BRACKET, UP_ARROW>>, <<LEFT_BRACKET, KEY_5, TILDE>>}
       /\ (pc = "c2" /\ keys'[2] = UP_ARROW /\ history # <<>>)
            => IF history_entry_to_display = 0
               THEN UNCHANGED <<input, history_entry_to_display>>
               ELSE /\ history_entry_to_display' =
                         IF InRecall THEN history_entry_to_display - 1
                         ELSE Len(history) - 1
                    /\ input' = history[history_entry_to_display' + 1]
       /\ (pc = "c2" /\ keys'[2] = DOWN_ARROW /\ InRecall)
            => IF history_entry_to_display < Len(history) - 1
               THEN /\ history_entry_to_display' = history_entry_to_display + 1
                    /\ input' = history[history_entry_to_display' + 1]
               ELSE /\ ~InRecall'
                    /\ input' = input_stash
                    /\ input_stash' = input_stash]_vars

\* A down arrow has been handled, no entry is on display, and the line is the
\* stashed line "a ", which is no entry of the three-entry history.
Wit_C28 ==
    /\ pc = "c1"
    /\ keys = <<LEFT_BRACKET, DOWN_ARROW>>
    /\ ~InRecall
    /\ Len(history) = 3
    /\ input_stash = <<"a", " ">>
    /\ input = input_stash

\* C29: PageUp puts the oldest history entry on the line whatever entry is
\* on display; PageDown during a recall puts the stashed line back and ends
\* the recall; PageDown outside a recall changes nothing.
Cex_C29 ==
    [][(pc = "c3" /\ pc' = "c1")
         => /\ (keys' = <<LEFT_BRACKET, KEY_5, TILDE>> /\ history # <<>>)
                 => (input' = history[1] /\ history_entry_to_display' = 0)
            /\ (keys' = <<LEFT_BRACKET, KEY_6, TILDE>> /\ InRecall)
                 => (input' = input_stash /\ ~InRecall')
            /\ (keys' = <<LEFT_BRACKET, KEY_6, TILDE>> /\ ~InRecall)
                 => UNCHANGED <<input, cursor_position, history_entry_to_display,
                                input_stash, insert_mode>>]_vars

\* The byte read in this step belongs to an escape sequence: it follows ESC.
InEscape == escaped \/ pc \in {"c2", "c3", "c4", "c5"}

\* The lines a step can leave without a character being put in: the line,
\* the line less the character at the cursor, a history entry, the stash.
NothingInserted ==
    {input, RemoveAt(input, cursor_position), input_stash}
        \cup {history[i] : i \in 1..Len(history)}

\* C30: ESC puts the editor in the escaped state; a next byte other than "["
\* is dropped and the editor is in the normal state again; when an escape
\* sequence is complete the editor is in the normal state; and no byte read
\* as part of an escape sequence is put into the line.
Thm_C30 ==
    /\ [](pc \in {"c2", "c3", "c4", "c5"} => escaped)
    /\ [][/\ (pc = "c1" /\ ~escaped /\ keys'[1] = ESC)
               => (escaped' /\ pc' = "c1" /\ input' = input)
          /\ (pc = "c1" /\ escaped /\ keys'[1] # LEFT_BRACKET)
               => /\ ~escaped'
                  /\ pc' = "c1"
                  /\ UNCHANGED <<input, cursor_position, history_entry_to_display,
                                 input_stash, insert_mode>>
          /\ (pc = "c1" /\ escaped /\ keys'[1] = LEFT_BRACKET)
               => (escaped' /\ pc' = "c2" /\ input' = input)
          /\ (pc \in {"c2", "c3", "c4", "c5"} /\ pc' = "c1") => ~escaped'
          /\ InEscape => input' \in NothingInserted]_vars

\* The letter a has been read after ESC, and the line, with no history to
\* recall from, is still empty.
Wit_C30 ==
    /\ pc = "c1"
    /\ ~escaped
    /\ keys = <<97>>
    /\ history = <<>>
    /\ input = <<>>

\* C31: a byte below 0x20 other than newline and ESC, read in the normal
\* state, is ignored: the line, the cursor, the overwrite flag and the
\* history entry on display are what they were.
Cex_C31 ==
    [][(pc = "c1" /\ ~escaped /\ keys'[1] < FIRST_REGULAR /\ keys'[1] \notin {ENTER, ESC})
         => UNCHANGED <<input, cursor_position, insert_mode, history_entry_to_display>>]_vars

\* t is s without the white space at its ends: a stretch of s with nothing
\* but white space before and after it, that neither begins nor ends with
\* white space.
IsTrimOf(t, s) ==
    \E i \in 1..(Len(s) + 1) :
        /\ i + Len(t) - 1 <= Len(s)
        /\ t = SubSeq(s, i, i + Len(t) - 1)
        /\ \A k \in 1..Len(s) : (k < i \/ k > i + Len(t) - 1) => s[k] = " "
        /\ t # <<>> => (t[1] # " " /\ t[Len(t)] # " ")

\* C32: on newline in the normal state get_line returns; the line is the
\* edited text without the white space at its ends, the characters between
\* as they were, and cursor_position is 0, wherever the cursor was.
Thm_C32 ==
    [][/\ (pc = "c1" /\ ~escaped /\ keys'[1] = ENTER)
            => /\ pc' = "line"
               /\ IsTrimOf(input', input)
               /\ cursor_position' = 0
       /\ (pc = "c1" /\ pc' = "line") => (~escaped /\ keys' = <<ENTER>>)]_vars

\* get_line has returned "a" with the cursor at 0; " a", the line a recall
\* stashed and a down arrow puts back, is no entry of the history.
Wit_C32 ==
    /\ pc = "line"
    /\ keys = <<ENTER>>
    /\ input = <<"a">>
    /\ input_stash = <<" ", "a">>
    /\ history = <<<<"b">>>>
    /\ cursor_position = 0

\* C33: an expansion replaces the bang token and nothing else: when the
\* line ends in a `!N`, `!-N` or `!word` token that begins at position
\* p > 1, the expanded line begins with the p - 1 characters before the
\* token, the character right before the `!` among them.
Cex_C33 ==
    [][(pc = "expand" /\ expansion'.kind = "Expanded")
         => \A p \in 2..Len(input) :
               SubSeq(input, p, Len(input)) \in BangTokens \ {<<Bang, Bang>>}
                 => IsPrefix(SubSeq(input, 1, p - 1), expansion'.text)]_vars

\* Rounds of the prompt loop a chain of expansions is followed for.
MaxRounds == 4

\* lines 828-853 with history_expansion: the line is expanded against h; an
\* Expanded line is offered again and accepted as it is (get_line trims it),
\* for up to n more rounds.  TRUE if a round returns Unchanged or
\* EventNotFound, or offers an empty line, which the loop skips.
RECURSIVE ChainEnds(_, _, _)
ChainEnds(line, h, n) ==
    LET e == Expand(line, h)
    IN  IF ~e.found \/ e.text = line \/ Trim(e.text) = <<>> THEN TRUE
        ELSE IF n = 0 THEN FALSE
        ELSE ChainEnds(Trim(e.text), HistoryAfter(h, e), n - 1)

\* C34: every chain of expansions ends: when each line offered again is
\* accepted as it is, history_expansion returns Unchanged or EventNotFound
\* after a bounded number of rounds, here MaxRounds.
Cex_C34 == pc = "expand" => ChainEnds(input, history, MaxRounds)

\* C35: whenever run_interpreter hands a line to handle_input the line is
\* the last entry of the history, and stays so while handle_input runs it.
Thm_C35 ==
    /\ [](pc = "handle" => LastOf(history) = <<input>>)
    /\ [][(pc # "handle" /\ pc' = "handle")
            => (input' = input /\ LastOf(history') = <<input>>)]_vars

\* handle_input runs a line that was the only entry of the history already:
\* nothing was pushed or written for it.
Wit_C35 ==
    /\ pc = "handle"
    /\ history = <<input>>
    /\ history_file # {}
    /\ history_written = <<>>
    /\ parser.pos > 0

\* The editor's own variables.
editor == <<input, cursor_position, history_entry_to_display, input_stash, insert_mode>>

\* C36: in every state of get_line 0 <= cursor_position <= length of the
\* line; left at 0, right and Delete at the end and backspace at 0 change
\* nothing; after a recall, PageUp, PageDown or End the cursor is at the end
\* of the line, after Home at 0.
Thm_C36 ==
    /\ [](cursor_position >= 0 /\ cursor_position <= Len(input))
    /\ [][/\ (pc = "c2" /\ keys'[2] = LEFT_ARROW /\ cursor_position = 0)
               => UNCHANGED editor
          /\ (pc = "c2" /\ keys'[2] = RIGHT_ARROW /\ cursor_position = Len(input))
               => UNCHANGED editor
          /\ (pc = "c3" /\ keys'[2] = KEY_3 /\ keys'[3] = TILDE
                /\ cursor_position = Len(input))
               => UNCHANGED editor
          /\ (pc = "c1" /\ ~escaped /\ keys'[1] = BACKSPACE /\ cursor_position = 0)
               => UNCHANGED <<input, cursor_position, input_stash, insert_mode>>
          /\ (pc = "c2" /\ keys'[2] = END_KEY) => cursor_position' = Len(input')
          /\ (pc = "c2" /\ keys'[2] = HOME_KEY) => cursor_position' = 0
          /\ (history_entry_to_display' # history_entry_to_display /\ pc # "c1")
               => cursor_position' = Len(input')]_vars

\* Entry "ab" of the history is on display after an up arrow, the cursor at
\* its end, and the line stashed is longer or shorter than it.
Wit_C36 ==
    /\ pc = "c1"
    /\ keys = <<LEFT_BRACKET, UP_ARROW>>
    /\ history_entry_to_display = 0
    /\ input = <<"a", "b">>
    /\ cursor_position = 2
    /\ Len(input_stash) # 2

\* C37: the history entry on display is none (-1) or one of the entries
\* 0 .. history length - 1, so every history access of a recall is in
\* range; an up arrow on the oldest entry, and an up arrow or PageUp with an
\* empty history, change nothing.
Thm_C37 ==
    /\ [](history_entry_to_display \in (0 - 1)..(Len(history) - 1))
    /\ [][/\ (pc = "c2" /\ keys'[2] = UP_ARROW
                /\ (history_entry_to_display = 0 \/ history = <<>>))
               => UNCHANGED editor
          /\ (pc = "c3" /\ keys'[2] = KEY_5 /\ keys'[3] = TILDE /\ history = <<>>)
               => UNCHANGED editor]_vars

\* An up arrow has been handled with the oldest of three entries on display
\* and another line in the stash.
Wit_C37 ==
    /\ pc = "c1"
    /\ keys = <<LEFT_BRACKET, UP_ARROW>>
    /\ Len(history) = 3
    /\ history_entry_to_display = 0
    /\ input = history[1]
    /\ input_stash = <<"a", " ">>

\* C38: get_line fails for no sequence of bytes: after a byte from 0x80 on,
\* typed as a regular character, cursor_position is a valid position of the
\* line and the calls that follow succeed.
Cex_C38 == pc # "panic" /\ IsBoundary(input, cursor_position)

\* C39: on every return of execute_command last_exit_status is the status
\* returned, also on the early return taken when the redirects do not
\* resolve.
Cex_C39 == pc = "returned" => last_exit_status = ret

\* spawn has started a child for the command and execute_command has not
\* returned.
ChildStarted == ran = "spawn" /\ pc # "returned"

\* Entry i of the list closes a standard descriptor that no later entry
\* opens or duplicates onto.
ClosesForGood(rs, i) ==
    /\ rs[i].kind = "Close"
    /\ rs[i].fd \in StdFds
    /\ \A j \in (i + 1)..Len(rs) :
          rs[j].kind \in {"Close", "PipeIn", "PipeOut"} \/ rs[j].fd # rs[i].fd

\* C40: for a list that resolves, the child has the descriptors that are
\* keys of the table, each on the open file of its entry, and the standard
\* descriptors closed in it are those that are no key: none when there is
\* no redirect, and fd after a Close(fd) that nothing later re-opens.
Thm_C40 ==
    /\ [](ChildStarted
            => /\ DOMAIN ChildFds(fd_mappings, procFds) = DOMAIN fd_redirects
               /\ \A fd \in DOMAIN fd_redirects :
                     ChildFds(fd_mappings, procFds)[fd] = fd_redirects[fd].ofd
               /\ FdsToClose(fd_mappings) = StdFds \ DOMAIN fd_redirects)
    /\ [][(pc = "resolved" /\ pc' = "dispatch")
            => /\ redirects = <<>> => FdsToClose(fd_mappings') = {}
               /\ \A i \in 1..Len(redirects) :
                     ClosesForGood(redirects, i)
                       => redirects[i].fd \in FdsToClose(fd_mappings')]_vars

\* A child runs with standard output closed and one more descriptor, on a
\* file the shell opened for it.
Wit_C40 ==
    /\ ChildStarted
    /\ child.state = "running"
    /\ FdsToClose(fd_mappings) = {STDOUT}
    /\ HistoryFd \in DOMAIN fd_redirects
    /\ Owned(fd_redirects[HistoryFd])
    /\ ChildFds(fd_mappings, procFds)[HistoryFd].kind # "tty"

====
